---- MODULE Spec2Model ----
(***************************************************************************)
(* relialimo_orchestra: the pipeline controller (run_orchestra), the task  *)
(* runner (_run_tasks), the resilient call wrapper                         *)
(* (_run_agent_with_backoff) and the patch safety validator                *)
(* (_patch_is_safe).                                                       *)
(*                                                                         *)
(* orchestrator.py holds the body of run_orchestra in two pieces, lines    *)
(* 141-232 and lines 274-354, and the definition of                        *)
(* _run_agent_with_backoff (lines 234-272) stands between them, at column  *)
(* 0.  As it stands the file is not valid Python (line 275 is indented     *)
(* under a function that ended).  The model reads the two pieces as the    *)
(* one function they are the pieces of, and _run_agent_with_backoff as a   *)
(* function of its own.  Every actor invocation of run_orchestra is a      *)
(* direct `await Runner.run(...)`; nothing calls the wrapper.              *)
(*                                                                         *)
(* Seven specifications share the variables: Spec is one run of            *)
(* run_orchestra, SpecBackoff one call of _run_agent_with_backoff,         *)
(* SpecPatch one call of apply_patch with its call of _patch_is_safe,      *)
(* SpecTools one call of list_files, read_file or write_file, SpecCoder    *)
(* one actor invocation that calls run_task, SpecLoop two runs of          *)
(* run_orchestra in one event loop, SpecActors one invocation of the actor *)
(* of a stage with the tools its agent has.                                *)
(***************************************************************************)
EXTENDS Integers, Sequences, FiniteSets, TLC

\* ------------------------------------------------------------------ bounds

\* max_iterations ranges over -1 .. MaxIterationsBound
MaxIterationsBound == 2

\* max_attempts ranges over 0 .. MaxAttemptsBound (the default is 8, and the
\* cap of 20 s is first met by the 7th sleep)
MaxAttemptsBound == 8

\* The floats of the model carry PrecisionBits significant bits, and
\* random.random() is a multiple of 2^-PrecisionBits; a Python float carries
\* 53 and random.random() is a multiple of 2^-53.
PrecisionBits == 5

\* a patch text is made of at most MaxPieces pieces of PatchPieces
MaxPieces == 4

\* a path given to a tool has at most MaxPathLen components
MaxPathLen == 3

\* an actor invocation makes at most MaxToolCalls tool calls
MaxToolCalls == 2

\* of the commands configured, at most MaxFailingCommands are commands that
\* would not exit with 0 in one _run_tasks call
MaxFailingCommands == 1

\* ------------------------------------------------------------- task runner

\* orchestrator.py:26
TASK_ORDER == <<"format", "lint", "typecheck", "test", "build">>

TaskNames == {TASK_ORDER[k] : k \in 1..Len(TASK_ORDER)}

\* out[-4000:] keeps at most this many characters (orchestrator.py:128,
\* tools_repo.py:237 and 240)
TAIL_CHARS == 4000

\* s repeated n times
RECURSIVE Repeat(_, _)
Repeat(s, n) ==
    IF n = 0 THEN ""
    ELSE IF n % 2 = 1 THEN s \o Repeat(s, n - 1)
    ELSE LET h == Repeat(s, n \div 2) IN h \o h

\* the combined output of a command that prints one character more than the
\* tail keeps: "usage: ..." and a long listing
LongOutput == "u" \o Repeat("x", TAIL_CHARS)

\* What can become of one subprocess.run call (orchestrator.py:58-66): the
\* process ran and exited with a code and an output text, or subprocess.run
\* raised: the executable is missing (FileNotFoundError), another I/O error
\* (OSError), or the timeout passed (TimeoutExpired, the child is killed).
ProcEvents ==
    { [kind |-> "exit", code |-> 0, out |-> ""],
      [kind |-> "exit", code |-> 1, out |-> "SyntaxError line 4"],
      [kind |-> "exit", code |-> 2, out |-> LongOutput],
      [kind |-> "FileNotFoundError", code |-> 0 - 1, out |-> ""],
      [kind |-> "OSError", code |-> 0 - 1, out |-> ""],
      [kind |-> "TimeoutExpired", code |-> 0 - 1, out |-> ""] }

\* the process exited with 0
ExitOk == [kind |-> "exit", code |-> 0, out |-> ""]

\* What becomes of each configured command if it is spawned, for one
\* _run_tasks call.
SpawnPlans(configured) ==
    UNION { { [t \in configured |-> IF t \in F THEN fe[t] ELSE ExitOk] :
                fe \in [F -> ProcEvents \ {ExitOk}] } :
            F \in {G \in SUBSET configured :
                      Cardinality(G) <= MaxFailingCommands} }

\* f"ERROR running command {argv}: {e}": the model keeps the fixed part of
\* the text
ErrorText(kind) == "ERROR running command"

\* _run(argv, cwd, timeout_sec) of orchestrator.py: (code, out).  `except
\* Exception` turns whatever subprocess.run raises into exit code 1 and an
\* error text.
\* RunCommand reporting the shell's code for a command that cannot be run, in
\* place of 1: C14 fails with it
RunCommandCode127(ev) ==
    IF ev.kind = "exit" THEN <<ev.code, ev.out>>
    ELSE <<127, ErrorText(ev.kind)>>

RunCommand(ev) ==
    IF ev.kind = "exit" THEN <<ev.code, ev.out>>
    ELSE <<1, ErrorText(ev.kind)>>

\* what one spawned command can come to, as _run reports it
ProcResults == {RunCommand(ev) : ev \in ProcEvents}

\* {} : the empty dict
EmptyDict == [x \in {} |-> TRUE]

\* dict.get(key, default)
Get(d, key, default) == IF key \in DOMAIN d THEN d[key] ELSE default

\* " ".join(spec.argv) of the task's TaskSpec
CmdText(task) == <<"cmd", task>>

\* out[-4000:]: the whole text when it has at most 4000 characters, and its
\* last 4000 characters otherwise
\* OutputTail keeping the first 4000 characters (out[:4000]): C24 fails with
\* it
OutputTailHead(out) ==
    IF Len(out) <= TAIL_CHARS THEN out ELSE SubSeq(out, 1, TAIL_CHARS)

OutputTail(out) ==
    IF Len(out) <= TAIL_CHARS THEN out
    ELSE SubSeq(out, Len(out) - TAIL_CHARS + 1, Len(out))

\* The loop of _run_tasks from position k on.  `configured` is the key set of
\* ctx.config.tasks, `res` gives for each task what _run reports of its
\* command if it is invoked.  The value is the status mapping together with the list of
\* the commands that were invoked, in order.
RECURSIVE RunTasksFrom(_, _, _, _, _)
\* RunTasksFrom without the `break` of line 137: C1 fails with it
RunTasksFromNoBreak(k, st, inv, configured, res) ==
    IF k > Len(TASK_ORDER) THEN [status |-> st, invoked |-> inv]
    ELSE LET task == TASK_ORDER[k] IN
         IF task \notin configured
         THEN RunTasksFrom(k + 1, (task :> [skipped |-> TRUE]) @@ st, inv,
                           configured, res)
         ELSE LET code == res[task][1]
                  out  == res[task][2]
                  ok   == code = 0
                  st2  == (task :> [ok |-> ok, returncode |-> code,
                                    cmd |-> CmdText(task),
                                    output_tail |-> OutputTail(out)]) @@ st
              IN RunTasksFrom(k + 1, st2, Append(inv, task), configured, res)

\* RunTasksFrom with `break` in place of `continue` at line 126: C16 fails
\* with it
RunTasksFromSkipStops(k, st, inv, configured, res) ==
    IF k > Len(TASK_ORDER) THEN [status |-> st, invoked |-> inv]
    ELSE LET task == TASK_ORDER[k] IN
         IF task \notin configured
         THEN [status |-> (task :> [skipped |-> TRUE]) @@ st, invoked |-> inv]
         ELSE LET code == res[task][1]
                  out  == res[task][2]
                  ok   == code = 0
                  st2  == (task :> [ok |-> ok, returncode |-> code,
                                    cmd |-> CmdText(task),
                                    output_tail |-> OutputTail(out)]) @@ st
              IN IF ~ok
                 THEN [status |-> st2, invoked |-> Append(inv, task)]
                 ELSE RunTasksFrom(k + 1, st2, Append(inv, task),
                                   configured, res)

\* RunTasksFrom without the assignment of line 125: C17 fails with it
RunTasksFromNoSkipEntry(k, st, inv, configured, res) ==
    IF k > Len(TASK_ORDER) THEN [status |-> st, invoked |-> inv]
    ELSE LET task == TASK_ORDER[k] IN
         IF task \notin configured
         THEN RunTasksFrom(k + 1, st, inv, configured, res)
         ELSE LET code == res[task][1]
                  out  == res[task][2]
                  ok   == code = 0
                  st2  == (task :> [ok |-> ok, returncode |-> code,
                                    cmd |-> CmdText(task),
                                    output_tail |-> OutputTail(out)]) @@ st
              IN IF ~ok
                 THEN [status |-> st2, invoked |-> Append(inv, task)]
                 ELSE RunTasksFrom(k + 1, st2, Append(inv, task),
                                   configured, res)

\* RunTasksFrom leaving the loop only for a return code above 1
\* (`if code > 1: break`): C28 fails with it
RunTasksFromBreakAboveOne(k, st, inv, configured, res) ==
    IF k > Len(TASK_ORDER) THEN [status |-> st, invoked |-> inv]
    ELSE LET task == TASK_ORDER[k] IN
         IF task \notin configured
         THEN RunTasksFrom(k + 1, (task :> [skipped |-> TRUE]) @@ st, inv,
                           configured, res)
         ELSE LET code == res[task][1]
                  out  == res[task][2]
                  ok   == code = 0
                  st2  == (task :> [ok |-> ok, returncode |-> code,
                                    cmd |-> CmdText(task),
                                    output_tail |-> OutputTail(out)]) @@ st
              IN IF code > 1
                 THEN [status |-> st2, invoked |-> Append(inv, task)]
                 ELSE RunTasksFrom(k + 1, st2, Append(inv, task),
                                   configured, res)

RunTasksFrom(k, st, inv, configured, res) ==
    IF k > Len(TASK_ORDER) THEN [status |-> st, invoked |-> inv]
    ELSE LET task == TASK_ORDER[k] IN
         IF task \notin configured
         THEN RunTasksFrom(k + 1, (task :> [skipped |-> TRUE]) @@ st, inv,
                           configured, res)
         ELSE LET code == res[task][1]
                  out  == res[task][2]
                  ok   == code = 0
                  st2  == (task :> [ok |-> ok, returncode |-> code,
                                    cmd |-> CmdText(task),
                                    output_tail |-> OutputTail(out)]) @@ st
              IN IF ~ok
                 THEN [status |-> st2, invoked |-> Append(inv, task)]
                 ELSE RunTasksFrom(k + 1, st2, Append(inv, task),
                                   configured, res)

\* _run_tasks(ctx)
RunTasks(configured, res) == RunTasksFrom(1, EmptyDict, <<>>, configured, res)

\* The scan of run_orchestra for the first failing task, from position k on:
\* the value is (failed, last_failure_output).
RECURSIVE DetectFrom(_, _)
\* DetectFrom without the test of line 279 and with tinfo.get("ok", False):
\* C15 fails with it
DetectFromSkippedFails(k, st) ==
    IF k > Len(TASK_ORDER) THEN [failed |-> FALSE, last_failure_output |-> <<>>]
    ELSE LET t     == TASK_ORDER[k]
             tinfo == Get(st, t, EmptyDict)
         IN IF ~Get(tinfo, "ok", FALSE)
            THEN [failed |-> TRUE,
                  last_failure_output |->
                      <<t, Get(tinfo, "cmd", "None"),
                        Get(tinfo, "output_tail", "None")>>]
            ELSE DetectFrom(k + 1, st)

DetectFrom(k, st) ==
    IF k > Len(TASK_ORDER) THEN [failed |-> FALSE, last_failure_output |-> <<>>]
    ELSE LET t     == TASK_ORDER[k]
             tinfo == Get(st, t, EmptyDict)
         IN IF Get(tinfo, "skipped", FALSE) THEN DetectFrom(k + 1, st)
            ELSE IF ~Get(tinfo, "ok", TRUE)
                 THEN [failed |-> TRUE,
                       last_failure_output |->
                           <<t, Get(tinfo, "cmd", "None"),
                             Get(tinfo, "output_tail", "None")>>]
                 ELSE DetectFrom(k + 1, st)

DetectFailure(st) == DetectFrom(1, st)

\* ------------------------------------------------------- actor invocations

\* getattr(e, "status_code", None) when the failure carries no status code
None == -1

\* How one `await Runner.run(...)` can fail: the exception's class as the
\* except clauses of _run_agent_with_backoff tell it apart (RateLimitError
\* is matched first; APIError covers the status errors, and the connection
\* and timeout errors, which carry no status code; Exception is everything
\* else, MaxTurnsExceeded included), with its status_code.
Failures ==
    { [cls |-> "RateLimitError", status_code |-> 429],
      [cls |-> "APIError", status_code |-> 400],
      [cls |-> "APIError", status_code |-> 499],
      [cls |-> "APIError", status_code |-> 500],
      [cls |-> "APIError", status_code |-> 503],
      [cls |-> "APIError", status_code |-> None],
      [cls |-> "Exception", status_code |-> None] }

\* No failure: Runner.run returned its result.
Returned == [cls |-> "ok", status_code |-> None]

Outcomes == {Returned} \cup Failures

\* run_orchestra has no except clause: whatever the failure is, it leaves the
\* function.  One failure of each class stands for the class there.
RunFailures ==
    { [cls |-> "RateLimitError", status_code |-> 429],
      [cls |-> "APIError", status_code |-> 500],
      [cls |-> "Exception", status_code |-> None] }

RunOutcomes == {Returned} \cup RunFailures

\* ------------------------------------------------------ pipeline controller

VARIABLES
    config,               \* key set of ctx.config.tasks (of the TASK_ORDER names)
    max_iterations,       \* run_orchestra's parameter
    create_branch,        \* run_orchestra's parameter
    commit,               \* run_orchestra's parameter
    pc,                   \* position in run_orchestra
    i,                    \* the loop variable of the implement loop
    status,               \* local `status`
    invoked,              \* commands spawned by the latest _run_tasks call
    runner_status,        \* the mapping the latest _run_tasks call returned
    failed,               \* local `failed`
    last_failure_output,  \* local `last_failure_output`
    implement_prompt,     \* PREVIOUS_FAILURE_OUTPUT section of the prompt of the
                          \* implement call that is awaited (<<>>: none)
    judge_prompt,         \* the parts of the latest judge prompt
    diff_text,            \* local `diff_text`
    outputs,              \* final_output of the actor calls that returned
    result,               \* the OrchestraRunResult returned, or NoResult
    raised,               \* the exception that left run_orchestra, or Returned
    active,               \* actor stages whose Runner.run is awaited
    calls,                \* Runner.run invocations made for the stage at pc
    hist,                 \* the stage events of the run, in order
    tool_calls,           \* git operations run_orchestra performed itself
    ctx_state,            \* ctx.state
    spawn_events,         \* whether each subprocess.run call of the latest
                          \* _run_tasks call returned ("exit") or raised
                          \* ("raised"), by task
    run_outputs,          \* the text `out` that _run returned for each command
                          \* of the latest _run_tasks call, by task
    failed_runs,          \* number of _run_tasks calls so far whose mapping
                          \* holds an outcome with ok = false
    debug_prompt          \* FAILURE_OUTPUT section of the prompt of the
                          \* diagnosing call that is awaited (EmptyDict: none)

pvars == <<config, max_iterations, create_branch, commit, pc, i, status,
           invoked, runner_status, failed, last_failure_output, implement_prompt,
           judge_prompt, diff_text, outputs, result, raised, active, calls,
           hist, tool_calls, ctx_state, spawn_events, run_outputs,
           failed_runs, debug_prompt>>

NoResult == [x \in {} |-> TRUE]

\* What _git_diff can return: the diff text, "(no diff)", or the error text.
DiffTexts == {"(no diff)", "diff"}

\* _branch_name_from_goal(goal)
BranchName == "ai/ts_goal"

InitPipeline ==
    /\ config \in SUBSET TaskNames
    /\ max_iterations \in (0 - 1)..MaxIterationsBound
    /\ create_branch \in BOOLEAN
    /\ commit \in BOOLEAN
    /\ pc = "start"
    /\ i = 0
    /\ status = EmptyDict
    /\ invoked = <<>>
    /\ runner_status = EmptyDict
    /\ failed = FALSE
    /\ last_failure_output = <<>>
    /\ implement_prompt = <<>>
    /\ judge_prompt = EmptyDict
    /\ diff_text = ""
    /\ outputs = EmptyDict
    /\ result = NoResult
    /\ raised = Returned
    /\ active = {}
    /\ calls = 0
    /\ hist = <<>>
    /\ tool_calls = <<>>
    /\ ctx_state = EmptyDict
    /\ spawn_events = EmptyDict
    /\ run_outputs = EmptyDict
    /\ failed_runs = 0
    /\ debug_prompt = EmptyDict

\* `await Runner.run(agent, ...)` is entered: the stage is in progress.
CallActor(stage, waiting) ==
    /\ pc' = waiting
    /\ active' = active \cup {stage}
    /\ calls' = 1
    /\ hist' = Append(hist, <<stage, "call">>)

\* `await Runner.run(agent, ...)` returns the actor's final_output
ReturnActor(stage, next) ==
    /\ active' = active \ {stage}
    /\ pc' = next
    /\ outputs' = (stage :> <<stage, "final_output">>) @@ outputs
    /\ hist' = Append(hist, <<stage, "done">>)
    /\ UNCHANGED <<raised, calls>>

\* `await Runner.run(agent, ...)` raises o.  run_orchestra has no except
\* clause: the exception leaves it, and its frame, with the locals, is gone.
\* What the run did (hist, tool_calls, ctx.state) stays to be seen.
RaiseFromActor(stage, o) ==
    /\ pc' = "raised"
    /\ raised' = o
    /\ active' = active \ {stage}
    /\ i' = 0
    /\ status' = EmptyDict
    /\ invoked' = <<>>
    /\ runner_status' = EmptyDict
    /\ failed' = FALSE
    /\ last_failure_output' = <<>>
    /\ implement_prompt' = <<>>
    /\ judge_prompt' = EmptyDict
    /\ diff_text' = ""
    /\ outputs' = EmptyDict
    /\ spawn_events' = EmptyDict
    /\ run_outputs' = EmptyDict
    /\ debug_prompt' = EmptyDict
    /\ UNCHANGED <<config, failed_runs, max_iterations, create_branch, commit,
                   result, calls, hist, tool_calls, ctx_state>>

\* lines 150-161: context, session, optional working branch.  The result of
\* _git_create_branch is dropped; ctx.state["branch"] is set either way.
Start ==
    /\ pc = "start"
    /\ pc' = "map"
    /\ IF create_branch
       THEN \E ok \in BOOLEAN :
              /\ tool_calls' = Append(tool_calls,
                                      <<"git_create_branch", BranchName, ok>>)
              /\ ctx_state' = ("branch" :> BranchName) @@ ctx_state
              /\ hist' = Append(hist, <<"branch", "git">>)
       ELSE UNCHANGED <<tool_calls, ctx_state, hist>>
    /\ UNCHANGED <<config, spawn_events, run_outputs, failed_runs, debug_prompt, max_iterations, create_branch, commit, i, status,
                   invoked, runner_status, failed, last_failure_output, implement_prompt,
                   judge_prompt, diff_text, outputs, result, raised, active,
                   calls>>

\* lines 171-186
\* MapCall with the call started and not awaited: C9 fails with it
MapCallNotAwaited ==
    /\ pc = "map"
    /\ pc' = "plan"
    /\ active' = active \cup {"map"}
    /\ calls' = 1
    /\ hist' = Append(hist, <<"map", "call">>)
    /\ UNCHANGED <<config, spawn_events, run_outputs, failed_runs, debug_prompt, max_iterations, create_branch, commit, i, status,
                   invoked, runner_status, failed, last_failure_output,
                   implement_prompt, judge_prompt, diff_text, outputs, result,
                   raised, tool_calls, ctx_state>>

MapCall ==
    /\ pc = "map"
    /\ CallActor("map", "map_wait")
    /\ UNCHANGED <<config, spawn_events, run_outputs, failed_runs, debug_prompt, max_iterations, create_branch, commit, i, status,
                   invoked, runner_status, failed, last_failure_output, implement_prompt,
                   judge_prompt, diff_text, outputs, result, raised,
                   tool_calls, ctx_state>>

MapReturn ==
    /\ pc = "map_wait"
    /\ \E o \in RunOutcomes :
         IF o = Returned
         THEN /\ ReturnActor("map", "plan")
              /\ UNCHANGED <<config, spawn_events, run_outputs, failed_runs, debug_prompt, max_iterations, create_branch, commit, i,
                              status, invoked, runner_status, failed,
                              last_failure_output, implement_prompt,
                              judge_prompt, diff_text, result, tool_calls,
                              ctx_state>>
         ELSE RaiseFromActor("map", o)

\* lines 188-201
PlanCall ==
    /\ pc = "plan"
    /\ CallActor("plan", "plan_wait")
    /\ UNCHANGED <<config, spawn_events, run_outputs, failed_runs, debug_prompt, max_iterations, create_branch, commit, i, status,
                   invoked, runner_status, failed, last_failure_output, implement_prompt,
                   judge_prompt, diff_text, outputs, result, raised,
                   tool_calls, ctx_state>>

\* lines 195-205: the plan returns; status = {}, last_failure_output = ""
PlanReturn ==
    /\ pc = "plan_wait"
    /\ \E o \in RunOutcomes :
         IF o = Returned
         THEN /\ ReturnActor("plan", "loop")
              /\ status' = EmptyDict
              /\ last_failure_output' = <<>>
              /\ UNCHANGED <<config, spawn_events, run_outputs, failed_runs, debug_prompt, max_iterations, create_branch, commit, i,
                              invoked, runner_status, failed, implement_prompt,
                              judge_prompt, diff_text, result, tool_calls,
                              ctx_state>>
         ELSE RaiseFromActor("plan", o)

\* line 206: `for i in range(1, max_iterations + 1)` takes its next value,
\* or the loop is over (lines 316-317 follow)
\* LoopHead raising when the iterations are used up after a failure: C6
\* fails with it
LoopHeadRaisesWhenExhausted ==
    /\ pc = "loop"
    /\ IF i + 1 <= max_iterations
       THEN /\ i' = i + 1
            /\ pc' = "implement"
            /\ raised' = raised
       ELSE /\ i' = i
            /\ pc' = IF failed THEN "raised" ELSE "review"
            /\ raised' = IF failed
                         THEN [cls |-> "RuntimeError", status_code |-> None]
                         ELSE raised
    /\ UNCHANGED <<config, spawn_events, run_outputs, failed_runs, debug_prompt, max_iterations, create_branch, commit, status,
                   invoked, runner_status, failed, last_failure_output,
                   implement_prompt, judge_prompt, diff_text, outputs, result,
                   active, calls, hist, tool_calls, ctx_state>>

LoopHead ==
    /\ pc = "loop"
    /\ IF i + 1 <= max_iterations
       THEN /\ i' = i + 1
            /\ pc' = "implement"
       ELSE /\ i' = i
            /\ pc' = "review"
    /\ UNCHANGED <<config, spawn_events, run_outputs, failed_runs, debug_prompt, max_iterations, create_branch, commit, status,
                   invoked, runner_status, failed, last_failure_output, implement_prompt,
                   judge_prompt, diff_text, outputs, result, raised, active,
                   calls, hist, tool_calls, ctx_state>>

\* lines 207-229: the prompt carries PREVIOUS_FAILURE_OUTPUT when
\* last_failure_output is not empty
\* ImplementCall without lines 214-215: C21 fails with it
ImplementCallNoCarry ==
    /\ pc = "implement"
    /\ implement_prompt' = <<>>
    /\ CallActor("implement", "implement_wait")
    /\ UNCHANGED <<config, spawn_events, run_outputs, failed_runs,
                   debug_prompt, max_iterations, create_branch, commit, i,
                   status, invoked, runner_status, failed,
                   last_failure_output, judge_prompt, diff_text, outputs,
                   result, raised, tool_calls, ctx_state>>

ImplementCall ==
    /\ pc = "implement"
    /\ implement_prompt' = IF last_failure_output # <<>>
                           THEN last_failure_output ELSE <<>>
    /\ CallActor("implement", "implement_wait")
    /\ UNCHANGED <<config, spawn_events, run_outputs, failed_runs, debug_prompt, max_iterations, create_branch, commit, i, status,
                   invoked, runner_status, failed, last_failure_output,
                   judge_prompt, diff_text, outputs, result, raised,
                   tool_calls, ctx_state>>

ImplementReturn ==
    /\ pc = "implement_wait"
    /\ \E o \in RunOutcomes :
         IF o = Returned
         THEN /\ ReturnActor("implement", "run_tasks")
              /\ implement_prompt' = <<>>
              /\ UNCHANGED <<config, spawn_events, run_outputs, failed_runs, debug_prompt, max_iterations, create_branch, commit, i,
                              status, invoked, runner_status, failed,
                              last_failure_output, judge_prompt, diff_text,
                              result, tool_calls, ctx_state>>
         ELSE RaiseFromActor("implement", o)

\* line 232: status = _run_tasks(ctx)
RunTasksStep ==
    /\ pc = "run_tasks"
    /\ \E ev \in SpawnPlans(config) :
         LET res == [t \in config |-> RunCommand(ev[t])]
             r == RunTasks(config, res)
         IN /\ status' = r.status
            /\ invoked' = r.invoked
            /\ runner_status' = r.status
            /\ spawn_events' =
                   [t \in {r.invoked[k] : k \in DOMAIN r.invoked} |->
                      IF ev[t].kind = "exit" THEN "exit" ELSE "raised"]
            /\ run_outputs' =
                   [t \in {r.invoked[k] : k \in DOMAIN r.invoked} |->
                      res[t][2]]
            /\ failed_runs' =
                   IF \E t \in DOMAIN r.status :
                         "ok" \in DOMAIN r.status[t] /\ ~r.status[t].ok
                   THEN failed_runs + 1 ELSE failed_runs
    /\ hist' = Append(hist, <<"tasks", "run">>)
    /\ pc' = "detect"
    /\ UNCHANGED <<config, debug_prompt, max_iterations, create_branch, commit,
                   i, failed, last_failure_output, implement_prompt,
                   judge_prompt, diff_text, outputs, result, raised, active,
                   calls, tool_calls, ctx_state>>

\* lines 274-287: detect the first failure; `if not failed: break`
\* Detect without the `break` of line 287: C7 fails with it
DetectNoBreak ==
    /\ pc = "detect"
    /\ LET d == DetectFailure(status) IN
         /\ failed' = d.failed
         /\ last_failure_output' = d.last_failure_output
         /\ pc' = "debug"
    /\ UNCHANGED <<config, spawn_events, run_outputs, failed_runs, debug_prompt, max_iterations, create_branch, commit, i, status,
                   invoked, runner_status, implement_prompt,
                   judge_prompt, diff_text, outputs, result, raised, active,
                   calls, hist, tool_calls, ctx_state>>

\* Detect with `if failed: break` at line 286: C27 fails with it
DetectBreakOnFailure ==
    /\ pc = "detect"
    /\ LET d == DetectFailure(status) IN
         /\ failed' = d.failed
         /\ last_failure_output' = d.last_failure_output
         /\ pc' = IF d.failed THEN "review" ELSE "debug"
    /\ UNCHANGED <<config, spawn_events, run_outputs, failed_runs,
                   debug_prompt, max_iterations, create_branch, commit, i,
                   status, invoked, runner_status, implement_prompt,
                   judge_prompt, diff_text, outputs, result, raised, active,
                   calls, hist, tool_calls, ctx_state>>

Detect ==
    /\ pc = "detect"
    /\ LET d == DetectFailure(status) IN
         /\ failed' = d.failed
         /\ last_failure_output' = d.last_failure_output
         /\ pc' = IF ~d.failed THEN "review" ELSE "debug"
    /\ UNCHANGED <<config, spawn_events, run_outputs, failed_runs, debug_prompt, max_iterations, create_branch, commit, i, status,
                   invoked, runner_status, implement_prompt,
                   judge_prompt, diff_text, outputs, result, raised, active,
                   calls, hist, tool_calls, ctx_state>>

\* lines 289-302: the FAILURE_OUTPUT section of the prompt is
\* last_failure_output
DebugCall ==
    /\ pc = "debug"
    /\ debug_prompt' = [failure_output |-> last_failure_output]
    /\ CallActor("debug", "debug_wait")
    /\ UNCHANGED <<config, spawn_events, run_outputs, failed_runs, max_iterations,
                   create_branch, commit, i, status, invoked, runner_status,
                   failed, last_failure_output, implement_prompt,
                   judge_prompt, diff_text, outputs, result, raised,
                   tool_calls, ctx_state>>

DebugReturn ==
    /\ pc = "debug_wait"
    /\ \E o \in RunOutcomes :
         IF o = Returned
         THEN /\ ReturnActor("debug", "fix")
              /\ debug_prompt' = EmptyDict
              /\ UNCHANGED <<config, spawn_events, run_outputs, failed_runs,
                              max_iterations, create_branch, commit, i,
                              status, invoked, runner_status, failed,
                              last_failure_output, implement_prompt,
                              judge_prompt, diff_text, result, tool_calls,
                              ctx_state>>
         ELSE RaiseFromActor("debug", o)

\* lines 304-314
FixCall ==
    /\ pc = "fix"
    /\ CallActor("fix", "fix_wait")
    /\ UNCHANGED <<config, spawn_events, run_outputs, failed_runs, debug_prompt, max_iterations, create_branch, commit, i, status,
                   invoked, runner_status, failed, last_failure_output, implement_prompt,
                   judge_prompt, diff_text, outputs, result, raised,
                   tool_calls, ctx_state>>

\* the end of the loop body: back to line 206
\* FixReturn going on to line 232 in place of line 206: C20 fails with it
FixReturnToRunTasks ==
    /\ pc = "fix_wait"
    /\ \E o \in RunOutcomes :
         IF o = Returned
         THEN /\ ReturnActor("fix", "run_tasks")
              /\ UNCHANGED <<config, spawn_events, run_outputs, failed_runs, debug_prompt,
                              max_iterations, create_branch, commit, i,
                              status, invoked, runner_status, failed,
                              last_failure_output, implement_prompt,
                              judge_prompt, diff_text, result, tool_calls,
                              ctx_state>>
         ELSE RaiseFromActor("fix", o)

FixReturn ==
    /\ pc = "fix_wait"
    /\ \E o \in RunOutcomes :
         IF o = Returned
         THEN /\ ReturnActor("fix", "loop")
              /\ UNCHANGED <<config, spawn_events, run_outputs, failed_runs, debug_prompt, max_iterations, create_branch, commit, i,
                              status, invoked, runner_status, failed,
                              last_failure_output, implement_prompt,
                              judge_prompt, diff_text, result, tool_calls,
                              ctx_state>>
         ELSE RaiseFromActor("fix", o)

\* lines 316-325: diff_text = _git_diff(repo_dir), then the reviewer
ReviewCall ==
    /\ pc = "review"
    /\ diff_text' \in DiffTexts
    /\ CallActor("review", "review_wait")
    /\ UNCHANGED <<config, spawn_events, run_outputs, failed_runs, debug_prompt, max_iterations, create_branch, commit, i, status,
                   invoked, runner_status, failed, last_failure_output, implement_prompt,
                   judge_prompt, outputs, result, raised,
                   tool_calls, ctx_state>>

ReviewReturn ==
    /\ pc = "review_wait"
    /\ \E o \in RunOutcomes :
         IF o = Returned
         THEN /\ ReturnActor("review", "judge")
              /\ UNCHANGED <<config, spawn_events, run_outputs, failed_runs, debug_prompt, max_iterations, create_branch, commit, i,
                              status, invoked, runner_status, failed,
                              last_failure_output, implement_prompt,
                              judge_prompt, diff_text, result, tool_calls,
                              ctx_state>>
         ELSE RaiseFromActor("review", o)

\* lines 327-340
JudgeCall ==
    /\ pc = "judge"
    /\ judge_prompt' = [diff |-> diff_text, status |-> status,
                        review |-> outputs["review"]]
    /\ CallActor("judge", "judge_wait")
    /\ UNCHANGED <<config, spawn_events, run_outputs, failed_runs, debug_prompt, max_iterations, create_branch, commit, i, status,
                   invoked, runner_status, failed, last_failure_output, implement_prompt,
                   diff_text, outputs, result, raised,
                   tool_calls, ctx_state>>

JudgeReturn ==
    /\ pc = "judge_wait"
    /\ \E o \in RunOutcomes :
         IF o = Returned
         THEN /\ ReturnActor("judge", "finalize")
              /\ UNCHANGED <<config, spawn_events, run_outputs, failed_runs, debug_prompt, max_iterations, create_branch, commit, i,
                              status, invoked, runner_status, failed,
                              last_failure_output, implement_prompt,
                              judge_prompt, diff_text, result, tool_calls,
                              ctx_state>>
         ELSE RaiseFromActor("judge", o)

\* lines 342-354: optional commit (its result is dropped), then the result
\* Finalize without the test of line 343: C25 fails with it
FinalizeCommitAlways ==
    /\ pc = "finalize"
    /\ \E ok \in BOOLEAN :
         /\ tool_calls' = Append(tool_calls, <<"git_commit_all", ok>>)
         /\ hist' = Append(hist, <<"commit", "git">>)
    /\ result' = [repo_map |-> outputs["map"], plan |-> outputs["plan"],
                  final_status |-> status, review |-> outputs["review"],
                  judge |-> outputs["judge"], diff |-> diff_text]
    /\ pc' = "done"
    /\ UNCHANGED <<config, spawn_events, run_outputs, failed_runs,
                   debug_prompt, max_iterations, create_branch, commit, i,
                   status, invoked, runner_status, failed,
                   last_failure_output, implement_prompt, judge_prompt,
                   diff_text, outputs, raised, active, calls, ctx_state>>

Finalize ==
    /\ pc = "finalize"
    /\ IF commit
       THEN \E ok \in BOOLEAN :
              /\ tool_calls' = Append(tool_calls, <<"git_commit_all", ok>>)
              /\ hist' = Append(hist, <<"commit", "git">>)
       ELSE UNCHANGED <<tool_calls, hist>>
    /\ result' = [repo_map |-> outputs["map"], plan |-> outputs["plan"],
                  final_status |-> status, review |-> outputs["review"],
                  judge |-> outputs["judge"], diff |-> diff_text]
    /\ pc' = "done"
    /\ UNCHANGED <<config, spawn_events, run_outputs, failed_runs, debug_prompt, max_iterations, create_branch, commit, i, status,
                   invoked, runner_status, failed, last_failure_output, implement_prompt,
                   judge_prompt, diff_text, outputs, raised, active,
                   calls, ctx_state>>

\* ------------------------------------------------- resilient call wrapper

RECURSIVE Pow2(_)
Pow2(n) == IF n <= 0 THEN 1 ELSE 2 * Pow2(n - 1)

\* floor(log2(n)) for n >= 1
RECURSIVE Log2(_)
Log2(n) == IF n < 2 THEN 0 ELSE 1 + Log2(n \div 2)

\* Float arithmetic.  A factor is an integer count of units of
\* 2^-(PrecisionBits + 2): exact for 1.0, for 0.25 and for
\* random.random() * 0.25.
One == Pow2(PrecisionBits + 2)

\* The result of a float operation whose exact value is n units: n rounded
\* to PrecisionBits significant bits, to nearest, ties to even.
Fl(n) ==
    LET e == Log2(n)
        g == IF e >= PrecisionBits - 1 THEN Pow2(e - (PrecisionBits - 1)) ELSE 1
        q == n \div g
        rem == n % g
    IN IF 2 * rem < g THEN q * g
       ELSE IF 2 * rem > g THEN (q + 1) * g
       ELSE IF q % 2 = 0 THEN q * g ELSE (q + 1) * g

\* Delays are counted in half seconds: 0.5 is 1, 20.0 is 40.
INITIAL_DELAY == 1
DELAY_CAP == 40

Min(a, b) == IF a < b THEN a ELSE b

\* random.random(): k * 2^-PrecisionBits for k in RandomDraws, in [0, 1)
RandomDraws == 0..(Pow2(PrecisionBits) - 1)

\* min(20.0, delay) * (1.0 + random.random() * 0.25), in units of half a
\* second times 2^-(PrecisionBits + 2).  random.random() * 0.25 is k units,
\* exactly; the sum and the product are rounded.
\* SleepSeconds without min(20.0, ...): C3 fails with it
SleepNoCap(delay, k) == Fl(delay * Fl(One + k))

SleepSeconds(delay, k) == Fl(Min(DELAY_CAP, delay) * Fl(One + k))

\* lines 255-265: which failures the except clauses answer with a sleep and
\* another attempt.  RateLimitError: always.  APIError: unless it carries a
\* status code below 500.  Anything else is not caught.
\* Retryable with the failures that carry no status code re-raised: C4
\* fails with it
RetryableStatusOnly(e) ==
    \/ e.cls = "RateLimitError"
    \/ e.cls = "APIError" /\ e.status_code # None /\ e.status_code >= 500

Retryable(e) ==
    \/ e.cls = "RateLimitError"
    \/ e.cls = "APIError" /\ ~(e.status_code # None /\ e.status_code < 500)

VARIABLES
    b_pc,             \* position in _run_agent_with_backoff
    max_attempts,     \* its parameter
    attempt,          \* the loop variable
    delay,            \* local `delay`, in half seconds
    sleep_s,          \* the latest sleep_s, in half seconds * 2^-(PrecisionBits+2)
    sleep_base,       \* min(20.0, delay) of the latest sleep, in half seconds
    sleeps,           \* number of asyncio.sleep calls made
    invocations,      \* number of Runner.run calls made
    only_rate_limits, \* every failure so far was a RateLimitError
    last_outcome,     \* how the latest attempt ended: Returned or the failure
    b_outcome         \* how the call ended: the value returned or the exception

bvars == <<b_pc, max_attempts, attempt, delay, sleep_s, sleep_base, sleeps,
           invocations, only_rate_limits, last_outcome, b_outcome>>

Label == "label"

InitBackoff ==
    /\ b_pc = "loop"
    /\ max_attempts \in 0..MaxAttemptsBound
    /\ attempt = 0
    /\ delay = INITIAL_DELAY
    /\ sleep_s = 0
    /\ sleep_base = 0
    /\ sleeps = 0
    /\ invocations = 0
    /\ only_rate_limits = TRUE
    /\ last_outcome = Returned
    /\ b_outcome = <<"pending">>

\* line 246: `for attempt in range(1, max_attempts + 1)` takes its next
\* value and Runner.run is awaited (line 248), or the loop is over and line
\* 272 raises
\* BackoffAttempt with range(1, max_attempts + 2): C5 fails with it
BackoffAttemptOffByOne ==
    /\ b_pc = "loop"
    /\ IF attempt <= max_attempts
       THEN /\ attempt' = attempt + 1
            /\ invocations' = invocations + 1
            /\ b_pc' = "calling"
            /\ UNCHANGED b_outcome
       ELSE /\ b_pc' = "raised"
            /\ b_outcome' = <<"RuntimeError", Label, max_attempts>>
            /\ UNCHANGED <<attempt, invocations>>
    /\ UNCHANGED <<max_attempts, delay, sleep_s, sleep_base, sleeps,
                   only_rate_limits, last_outcome>>

BackoffAttempt ==
    /\ b_pc = "loop"
    /\ IF attempt + 1 <= max_attempts
       THEN /\ attempt' = attempt + 1
            /\ invocations' = invocations + 1
            /\ b_pc' = "calling"
            /\ UNCHANGED b_outcome
       ELSE /\ b_pc' = "raised"
            /\ b_outcome' = <<"RuntimeError", Label, max_attempts>>
            /\ UNCHANGED <<attempt, invocations>>
    /\ UNCHANGED <<max_attempts, delay, sleep_s, sleep_base, sleeps,
                   only_rate_limits, last_outcome>>

\* lines 247-269: Runner.run returns, or fails and the except clauses act
BackoffOutcome ==
    /\ b_pc = "calling"
    /\ \E o \in Outcomes :
         /\ last_outcome' = o
         /\ IF o = Returned
            THEN /\ b_pc' = "returned"
                 /\ b_outcome' = <<"final_output">>
                 /\ UNCHANGED <<sleep_s, sleep_base, sleeps, only_rate_limits>>
            ELSE /\ only_rate_limits' =
                        (only_rate_limits /\ o.cls = "RateLimitError")
                 /\ IF Retryable(o)
                    THEN /\ \E k \in RandomDraws :
                              sleep_s' = SleepSeconds(delay, k)
                         /\ sleep_base' = Min(DELAY_CAP, delay)
                         /\ sleeps' = sleeps + 1
                         /\ b_pc' = "sleeping"
                         /\ UNCHANGED b_outcome
                    ELSE /\ b_pc' = "raised"
                         /\ b_outcome' = <<"propagated", o>>
                         /\ UNCHANGED <<sleep_s, sleep_base, sleeps>>
    /\ UNCHANGED <<max_attempts, attempt, delay, invocations>>

\* lines 259-260 and 268-269: asyncio.sleep returns; delay *= 2
BackoffWake ==
    /\ b_pc = "sleeping"
    /\ delay' = delay * 2
    /\ b_pc' = "loop"
    /\ UNCHANGED <<max_attempts, attempt, sleep_s, sleep_base, sleeps,
                   invocations, only_rate_limits, last_outcome, b_outcome>>

\* -------------------------------------------------- patch safety validator

\* A text is a sequence of characters.  The texts of the model are made of
\* these pieces: the three header prefixes, "/", the two traversal tokens,
\* a letter, a blank and a line break.
PlusPrefix == <<"+", "+", "+", " ">>
MinusPrefix == <<"-", "-", "-", " ">>
DiffPrefix == <<"d", "i", "f", "f", " ", "-", "-", "g", "i", "t", " ">>
DotDotSlash == <<".", ".", "/">>
DotDotBackslash == <<".", ".", "\\">>

PatchPieces ==
    { PlusPrefix, MinusPrefix, DiffPrefix, <<"/">>, DotDotSlash,
      DotDotBackslash, <<"a">>, <<" ">>, <<"\n">> }

RECURSIVE Concat(_)
Concat(pieces) ==
    IF pieces = <<>> THEN <<>> ELSE pieces[1] \o Concat(Tail(pieces))

PatchTexts ==
    {Concat(ps) : ps \in UNION {[1..n -> PatchPieces] : n \in 0..MaxPieces}}

\* m in text
Contains(text, m) ==
    \E p \in 1..(Len(text) - Len(m) + 1) : SubSeq(text, p, p + Len(m) - 1) = m

\* line.startswith(prefix)
StartsWith(line, prefix) ==
    Len(line) >= Len(prefix) /\ SubSeq(line, 1, Len(prefix)) = prefix

\* text.splitlines(), for a text whose only line breaks are "\n": the pieces
\* between the breaks, without an empty piece after a final break
RECURSIVE SplitFrom(_, _, _)
SplitFrom(text, p, cur) ==
    IF p > Len(text) THEN (IF cur = <<>> THEN <<>> ELSE <<cur>>)
    ELSE IF text[p] = "\n" THEN <<cur>> \o SplitFrom(text, p + 1, <<>>)
    ELSE SplitFrom(text, p + 1, Append(cur, text[p]))

SplitLines(text) == SplitFrom(text, 1, <<>>)

\* tools_repo.py:126
bad_markers ==
    << <<"\n">> \o PlusPrefix \o <<"/">>,
       <<"\n">> \o MinusPrefix \o <<"/">>,
       DiffPrefix \o <<"/">> >>

\* the test of line 132
IsHeaderLine(line) ==
    \/ StartsWith(line, PlusPrefix)
    \/ StartsWith(line, MinusPrefix)
    \/ StartsWith(line, DiffPrefix)

\* _patch_is_safe(patch_text): (accepted, reason)
PatchIsSafe(patch_text) ==
    IF \E k \in DOMAIN bad_markers : Contains(patch_text, bad_markers[k])
    THEN LET k == CHOOSE k \in DOMAIN bad_markers :
                    /\ Contains(patch_text, bad_markers[k])
                    /\ \A j \in 1..(k - 1) : ~Contains(patch_text, bad_markers[j])
         IN [accepted |-> FALSE,
             reason |-> <<"absolute path marker", bad_markers[k]>>]
    ELSE IF \E n \in DOMAIN SplitLines(patch_text) :
              LET line == SplitLines(patch_text)[n] IN
                /\ IsHeaderLine(line)
                /\ (Contains(line, DotDotSlash) \/ Contains(line, DotDotBackslash))
         THEN [accepted |-> FALSE,
               reason |-> <<"parent traversal in diff header">>]
         ELSE [accepted |-> TRUE, reason |-> <<"OK">>]

VARIABLES
    v_pc,         \* position in apply_patch: "input": the text is at hand;
                  \* "validated": _patch_is_safe returned (line 145);
                  \* "temp_written": the temporary file holds the text;
                  \* "returned", "raised": apply_patch is over
    patch_text,   \* the text given to apply_patch and to _patch_is_safe
    verdict,      \* what _patch_is_safe returned
    apply_log,    \* what apply_patch did to the file system and with git
    tool_output   \* what apply_patch returned to the actor

vvars == <<v_pc, patch_text, verdict, apply_log, tool_output>>

NoVerdict == [accepted |-> FALSE, reason |-> <<"pending">>]

NoOutput == <<"pending", <<>>>>

InitValidator ==
    /\ v_pc = "input"
    /\ patch_text \in PatchTexts
    /\ verdict = NoVerdict
    /\ apply_log = <<>>
    /\ tool_output = NoOutput

\* line 145: _patch_is_safe is called on the text
Validate ==
    /\ v_pc = "input"
    /\ verdict' = PatchIsSafe(patch_text)
    /\ v_pc' = "validated"
    /\ UNCHANGED <<patch_text, apply_log, tool_output>>

\* lines 146-147: `if not ok: return f"ERROR: {msg}"`
ApplyReject ==
    /\ v_pc = "validated"
    /\ ~verdict.accepted
    /\ tool_output' = <<"ERROR: ", verdict.reason>>
    /\ v_pc' = "returned"
    /\ UNCHANGED <<patch_text, verdict, apply_log>>

\* lines 149-152: the text is written to a temporary file, or the file
\* cannot be made and the OSError leaves apply_patch
\* ApplyWriteTemp without the return of line 147: C12 fails with it
ApplyWriteTempUnchecked ==
    /\ v_pc = "validated"
    /\ \E io_ok \in BOOLEAN :
         IF io_ok
         THEN /\ apply_log' = Append(apply_log, <<"write_temp", patch_text>>)
              /\ v_pc' = "temp_written"
         ELSE /\ v_pc' = "raised"
              /\ UNCHANGED apply_log
    /\ UNCHANGED <<patch_text, verdict, tool_output>>

ApplyWriteTemp ==
    /\ v_pc = "validated"
    /\ verdict.accepted
    /\ \E io_ok \in BOOLEAN :
         IF io_ok
         THEN /\ apply_log' = Append(apply_log, <<"write_temp", patch_text>>)
              /\ v_pc' = "temp_written"
         ELSE /\ v_pc' = "raised"
              /\ UNCHANGED apply_log
    /\ UNCHANGED <<patch_text, verdict, tool_output>>

\* lines 154-168: `git apply` runs on the temporary file and exits with 0 or
\* not, or subprocess.run raises (no git); the finally clause removes the
\* file in each case
ApplyGitApply ==
    /\ v_pc = "temp_written"
    /\ apply_log' = apply_log \o << <<"git_apply", patch_text>>,
                                   <<"remove_temp", patch_text>> >>
    /\ \E how \in {"applied", "failed", "raised"} :
         /\ v_pc' = IF how = "raised" THEN "raised" ELSE "returned"
         /\ tool_output' =
               CASE how = "applied" -> <<"OK: patch applied", <<>>>>
                 [] how = "failed" -> <<"ERROR applying patch:", <<"stderr">>>>
                 [] how = "raised" -> tool_output
    /\ UNCHANGED <<patch_text, verdict>>

\* apply_patch is not in use
IdleValidator ==
    /\ v_pc = "idle"
    /\ patch_text = <<>>
    /\ verdict = NoVerdict
    /\ apply_log = <<>>
    /\ tool_output = NoOutput

\* ------------------------------------------------- path containment, tools

\* A location is the sequence of the names from the root of the file system
\* down to it.  The file system of the model: /repo is the repository, with
\* the directory src, the files f and src/f, the symbolic link in -> /repo/src
\* and the symbolic link out -> /etc; /etc, with the file f, is outside.
REPO_DIR == <<"repo">>

Dirs == { <<>>, <<"repo">>, <<"repo", "src">>, <<"etc">> }

Files == { <<"repo", "f">>, <<"repo", "src", "f">>, <<"etc", "f">> }

Symlinks ==
    (<<"repo", "out">> :> <<"etc">>) @@ (<<"repo", "in">> :> <<"repo", "src">>)

PathNames == {"src", "in", "out", "etc", "f", "..", "."}

\* the paths an actor can give to a tool: relative ones, and absolute ones
ToolPaths ==
    { [abs |-> a, parts |-> ps] :
        a \in BOOLEAN,
        ps \in UNION {[1..n -> PathNames] : n \in 0..MaxPathLen} }

\* Path.exists(), Path.is_file() of a resolved location
Exists(loc) == loc \in Dirs \cup Files

IsFile(loc) == loc \in Files

\* Path.parent
Parent(loc) == IF loc = <<>> THEN <<>> ELSE SubSeq(loc, 1, Len(loc) - 1)

\* self.repo_dir / rel_path: an absolute rel_path replaces repo_dir
JoinPath(base, rel) == IF rel.abs THEN rel.parts ELSE base \o rel.parts

\* Path.resolve(): "." is dropped, ".." goes to the parent (the root is its
\* own parent), a symbolic link is replaced by the location it names; a name
\* that does not exist is kept
RECURSIVE ResolveFrom(_, _)
ResolveFrom(done, rest) ==
    IF rest = <<>> THEN done
    ELSE LET c == Head(rest) IN
         IF c = "." THEN ResolveFrom(done, Tail(rest))
         ELSE IF c = ".." THEN ResolveFrom(Parent(done), Tail(rest))
         ELSE IF Append(done, c) \in DOMAIN Symlinks
              THEN ResolveFrom(Symlinks[Append(done, c)], Tail(rest))
              ELSE ResolveFrom(Append(done, c), Tail(rest))

Resolve(parts) == ResolveFrom(<<>>, parts)

\* root in candidate.parents
InParents(root, candidate) ==
    Len(root) < Len(candidate) /\ SubSeq(candidate, 1, Len(root)) = root

\* RepoContext.abs_path(rel_path): the resolved location, or ValueError
\* abs_path without the two calls of resolve(): C13 fails with it
AbsPathNoResolve(rel) ==
    LET candidate == JoinPath(REPO_DIR, rel)
        repo_root == REPO_DIR
    IN [raised |-> ~InParents(repo_root, candidate) /\ candidate # repo_root,
        path |-> candidate]

AbsPath(rel) ==
    LET candidate == Resolve(JoinPath(REPO_DIR, rel))
        repo_root == Resolve(REPO_DIR)
    IN [raised |-> ~InParents(repo_root, candidate) /\ candidate # repo_root,
        path |-> candidate]

VARIABLES
    t_pc,        \* "ready": the tool is about to be called; "returned",
                 \* "raised": how the call ended
    tool_path,   \* the `path` argument
    tool_name,   \* the tool that was called
    abs_result,  \* what abs_path returned (the location), or <<"ValueError">>
    fs_ops,      \* the file system operations of the call after abs_path
    t_result     \* what the tool returned, or the exception

tvars == <<t_pc, tool_path, tool_name, abs_result, fs_ops, t_result>>

InitTools ==
    /\ t_pc = "ready"
    /\ tool_path \in ToolPaths
    /\ tool_name = "none"
    /\ abs_result = <<"pending">>
    /\ fs_ops = <<>>
    /\ t_result = "pending"

\* no tool is in use
IdleTools ==
    /\ t_pc = "idle"
    /\ tool_path = [abs |-> FALSE, parts |-> <<>>]
    /\ tool_name = "none"
    /\ abs_result = <<"pending">>
    /\ fs_ops = <<>>
    /\ t_result = "pending"

\* abs_path raised: the ValueError leaves the tool, which has done nothing
PathEscapes(name) ==
    /\ tool_name' = name
    /\ abs_result' = <<"ValueError">>
    /\ fs_ops' = <<>>
    /\ t_result' = "ValueError: Path escapes repo"
    /\ t_pc' = "raised"
    /\ UNCHANGED tool_path

\* tools_repo.py:61-83
ListFiles ==
    /\ t_pc = "ready"
    /\ LET r == AbsPath(tool_path) IN
         IF r.raised THEN PathEscapes("list_files")
         ELSE /\ tool_name' = "list_files"
              /\ abs_result' = <<"location", r.path>>
              /\ t_pc' = "returned"
              /\ UNCHANGED tool_path
              /\ IF ~Exists(r.path)
                 THEN /\ fs_ops' = << <<"exists", r.path>> >>
                      /\ t_result' = "ERROR: path does not exist"
                 ELSE IF IsFile(r.path)
                 THEN /\ fs_ops' = << <<"exists", r.path>>, <<"is_file", r.path>> >>
                      /\ t_result' = "path"
                 ELSE /\ fs_ops' = << <<"exists", r.path>>, <<"is_file", r.path>>,
                                      <<"walk", r.path>> >>
                      /\ t_result' = "listing"

\* tools_repo.py:86-105
ReadFile ==
    /\ t_pc = "ready"
    /\ LET r == AbsPath(tool_path) IN
         IF r.raised THEN PathEscapes("read_file")
         ELSE /\ tool_name' = "read_file"
              /\ abs_result' = <<"location", r.path>>
              /\ t_pc' = "returned"
              /\ UNCHANGED tool_path
              /\ IF ~Exists(r.path)
                 THEN /\ fs_ops' = << <<"exists", r.path>> >>
                      /\ t_result' = "ERROR: file not found"
                 ELSE IF ~IsFile(r.path)
                 THEN /\ fs_ops' = << <<"exists", r.path>>, <<"is_file", r.path>> >>
                      /\ t_result' = "ERROR: file not found"
                 ELSE /\ fs_ops' = << <<"exists", r.path>>, <<"is_file", r.path>>,
                                      <<"read_text", r.path>> >>
                      /\ t_result' = "FILE"

\* some ancestor of a location, or the location itself, is a file
BlockedByFile(loc) == \E n \in 1..Len(loc) : SubSeq(loc, 1, n) \in Files

\* tools_repo.py:108-121: p.parent.mkdir(parents=True, exist_ok=True) when
\* create_dirs, which raises when a file is in the way; then p.write_text,
\* which raises when p is a directory or when its parent is not there
WriteFile ==
    /\ t_pc = "ready"
    /\ \E create_dirs \in BOOLEAN :
         LET r == AbsPath(tool_path) IN
           IF r.raised THEN PathEscapes("write_file")
           ELSE LET mk == IF create_dirs THEN << <<"mkdir", Parent(r.path)>> >>
                          ELSE <<>>
                    mkdir_fails == create_dirs /\ BlockedByFile(Parent(r.path))
                    write_fails == \/ r.path \in Dirs
                                   \/ ~create_dirs /\ Parent(r.path) \notin Dirs
                IN /\ tool_name' = "write_file"
                   /\ abs_result' = <<"location", r.path>>
                   /\ UNCHANGED tool_path
                   /\ IF mkdir_fails \/ write_fails
                      THEN /\ fs_ops' = mk
                           /\ t_result' = "OSError"
                           /\ t_pc' = "raised"
                      ELSE /\ fs_ops' = mk \o << <<"write_text", r.path>> >>
                           /\ t_result' = "OK: wrote"
                           /\ t_pc' = "returned"

\* --------------------------------------------- the run_task tool of an actor

\* config.py:8
AllTaskNames == {"install"} \cup TaskNames

\* What can become of the subprocess.run call of tools_repo._run, which has
\* no except clause: the process exits, or the exception (the executable is
\* missing, the timeout passed) leaves _run and run_task.
ToolProcEvents ==
    { [kind |-> "exit", code |-> 0, out |-> ""],
      [kind |-> "exit", code |-> 1, out |-> "SyntaxError line 4"],
      [kind |-> "FileNotFoundError", code |-> 0 - 1, out |-> ""],
      [kind |-> "TimeoutExpired", code |-> 0 - 1, out |-> ""] }

VARIABLES
    c_pc,          \* "turn": the actor may call a tool; "finished": it gave its
                   \* final output; "raised": an exception ended the invocation
    c_config,      \* key set of ctx.config.tasks
    c_turns,       \* tool calls made in this invocation
    install_runs,  \* how many times the install command was spawned
    task_state,    \* the entries ctx.state["task:<name>"], by name
    c_output       \* what the latest run_task call returned, or its exception

cvars == <<c_pc, c_config, c_turns, install_runs, task_state, c_output>>

\* One invocation of an actor that has run_task among its tools (the
\* implementing actor, agents.py:95-110).
InitCoder ==
    /\ c_pc = "turn"
    /\ c_config \in SUBSET AllTaskNames
    /\ c_turns = 0
    /\ install_runs = 0
    /\ task_state = EmptyDict
    /\ c_output = <<"none", "none">>

\* no actor is using run_task
IdleCoder ==
    /\ c_pc = "idle"
    /\ c_config = {}
    /\ c_turns = 0
    /\ install_runs = 0
    /\ task_state = EmptyDict
    /\ c_output = <<"none", "none">>

\* tools_repo.py:222-241: the actor calls run_task(task).  Nothing in
\* run_task or around it counts or limits the calls for a task; the
\* invocation's max_turns alone limits them (MaxToolCalls here).  When _run
\* raises, the exception leaves run_task; what the agents library makes of it
\* (an error text for the actor, or the end of the invocation) is not in this
\* repository: both can happen.
RunTaskTool ==
    /\ c_pc = "turn"
    /\ c_turns < MaxToolCalls
    /\ c_turns' = c_turns + 1
    /\ \E task \in AllTaskNames :
         IF task \notin c_config
         THEN /\ c_output' = <<"SKIP: task not configured", task>>
              /\ UNCHANGED <<c_pc, install_runs, task_state>>
         ELSE \E ev \in ToolProcEvents :
                /\ install_runs' =
                      IF task = "install" /\ ev.kind # "FileNotFoundError"
                      THEN install_runs + 1 ELSE install_runs
                /\ IF ev.kind = "exit"
                   THEN /\ task_state' =
                             (task :> [returncode |-> ev.code,
                                       output |-> OutputTail(ev.out)])
                             @@ task_state
                        /\ c_output' =
                             <<IF ev.code = 0 THEN "OK" ELSE "FAIL", task>>
                        /\ UNCHANGED c_pc
                   ELSE /\ c_output' = <<ev.kind, task>>
                        /\ c_pc' \in {"turn", "raised"}
                        /\ UNCHANGED task_state
    /\ UNCHANGED c_config

\* the actor gives its final output
CoderFinish ==
    /\ c_pc = "turn"
    /\ c_pc' = "finished"
    /\ UNCHANGED <<c_config, c_turns, install_runs, task_state, c_output>>

\* ------------------------------------------- two runs in one event loop

\* The suspension points of one run of run_orchestra in which the first
\* iteration's verification fails and max_iterations is 1, in order: "actor"
\* is `await Runner.run(...)`, which gives the event loop's thread back until
\* the actor answers; "proc" is a call of _run, whose subprocess.run waits
\* for the child in the thread (lines 58-66): map, plan, _git_status,
\* implement, a task of _run_tasks, _git_diff, debug, fix, _git_diff,
\* review, judge.
RunProgram ==
    <<"actor", "actor", "proc", "actor", "proc", "proc", "actor", "actor",
      "proc", "actor", "actor">>

\* two runs, started with asyncio in the same thread
Runs == {1, 2}

VARIABLES
    l_thread,   \* the run whose code the event loop's thread executes, 0: none
    l_ip,       \* for each run, its position in RunProgram
    l_st        \* for each run: "ready" (the loop can resume it), "running",
                \* "awaiting" (an actor), "blocked" (in subprocess.run), "done"

lvars == <<l_thread, l_ip, l_st>>

InitLoop ==
    /\ l_thread = 0
    /\ l_ip = [r \in Runs |-> 1]
    /\ l_st = [r \in Runs |-> "ready"]

\* no event loop is modelled
IdleLoop ==
    /\ l_thread = 0
    /\ l_ip = [r \in Runs |-> 1]
    /\ l_st = [r \in Runs |-> "idle"]

\* the event loop resumes a run that is ready; it has one thread
LoopResume(r) ==
    /\ l_thread = 0
    /\ l_st[r] = "ready"
    /\ l_thread' = r
    /\ l_st' = [l_st EXCEPT ![r] = "running"]
    /\ UNCHANGED l_ip

\* the run's code goes on to its next suspension point, or to its end
RunStep(r) ==
    /\ l_thread = r
    /\ l_st[r] = "running"
    /\ IF l_ip[r] > Len(RunProgram)
       THEN /\ l_st' = [l_st EXCEPT ![r] = "done"]
            /\ l_thread' = 0
       ELSE IF RunProgram[l_ip[r]] = "actor"
       THEN /\ l_st' = [l_st EXCEPT ![r] = "awaiting"]
            /\ l_thread' = 0
       ELSE /\ l_st' = [l_st EXCEPT ![r] = "blocked"]
            /\ l_thread' = l_thread
    /\ UNCHANGED l_ip

\* the actor's answer is there: the awaiting run is ready to be resumed
ActorResponds(r) ==
    /\ l_st[r] = "awaiting"
    /\ l_st' = [l_st EXCEPT ![r] = "ready"]
    /\ l_ip' = [l_ip EXCEPT ![r] = @ + 1]
    /\ UNCHANGED l_thread

\* the child process is over (or its timeout passed): subprocess.run
\* returns in the thread it was called in
ChildExit(r) ==
    /\ l_st[r] = "blocked"
    /\ l_st' = [l_st EXCEPT ![r] = "running"]
    /\ l_ip' = [l_ip EXCEPT ![r] = @ + 1]
    /\ UNCHANGED l_thread

\* ------------------------------------------------ the actors and their tools

\* the stages of run_orchestra that invoke an actor
Stages == {"map", "plan", "implement", "debug", "fix", "review", "judge"}

\* the agent run_orchestra passes to Runner.run at each stage (lines 180,
\* 195, 223, 296, 308, 319, 334)
StageAgent(stage) ==
    CASE stage = "map" -> "repo_mapper"
      [] stage = "plan" -> "planner"
      [] stage = "implement" -> "coder"
      [] stage = "debug" -> "debugger"
      [] stage = "fix" -> "coder"
      [] stage = "review" -> "reviewer"
      [] stage = "judge" -> "judge"

\* agents.py:74-140: the tools each agent is built with.  No agent has
\* handoffs, and run_orchestra builds no other agent.
\* AgentTools with apply_patch given to the debugger too: C22 fails with it
AgentToolsDebuggerPatches(agent) ==
    CASE agent = "repo_mapper" ->
           {"list_files", "read_file", "search_repo", "git_status"}
      [] agent = "planner" -> {"list_files", "read_file", "search_repo"}
      [] agent = "coder" ->
           {"list_files", "read_file", "search_repo", "write_file",
            "apply_patch", "run_task", "git_status", "git_diff"}
      [] agent = "reviewer" -> {"git_diff", "read_file", "search_repo"}
      [] agent = "debugger" ->
           {"read_file", "search_repo", "git_diff", "apply_patch"}
      [] agent = "judge" -> {}

AgentTools(agent) ==
    CASE agent = "repo_mapper" ->
           {"list_files", "read_file", "search_repo", "git_status"}
      [] agent = "planner" -> {"list_files", "read_file", "search_repo"}
      [] agent = "coder" ->
           {"list_files", "read_file", "search_repo", "write_file",
            "apply_patch", "run_task", "git_status", "git_diff"}
      [] agent = "reviewer" -> {"git_diff", "read_file", "search_repo"}
      [] agent = "debugger" -> {"read_file", "search_repo", "git_diff"}
      [] agent = "judge" -> {}

\* What a tool of tools_repo.py does to the repository: write_file writes a
\* file (line 120), apply_patch runs `git apply` (line 155), run_task spawns
\* a configured command (line 236), git_create_branch and git_commit_all
\* change the git state (lines 277, 293-296); the other tools read.
ToolEffect(tool) ==
    CASE tool = "write_file" -> "write"
      [] tool = "apply_patch" -> "patch"
      [] tool = "run_task" -> "task"
      [] tool \in {"git_create_branch", "git_commit_all"} -> "git"
      [] OTHER -> "read"

VARIABLES
    a_pc,      \* "turn": the actor may call a tool; "finished": it gave its
               \* final output
    a_stage,   \* the stage whose actor is invoked
    a_calls    \* the tool calls of the invocation, in order: (tool, effect)

avars == <<a_pc, a_stage, a_calls>>

\* Runner.run is entered for the actor of one of the stages
InitActor ==
    /\ a_pc = "turn"
    /\ a_stage \in Stages
    /\ a_calls = <<>>

\* no actor is invoked
IdleActor ==
    /\ a_pc = "idle"
    /\ a_stage = "none"
    /\ a_calls = <<>>

\* the actor calls one of the tools its agent was built with
ActorToolCall ==
    /\ a_pc = "turn"
    /\ Len(a_calls) < MaxToolCalls
    /\ \E tool \in AgentTools(StageAgent(a_stage)) :
         a_calls' = Append(a_calls, <<tool, ToolEffect(tool)>>)
    /\ UNCHANGED <<a_pc, a_stage>>

\* the actor gives its final output
ActorFinish ==
    /\ a_pc = "turn"
    /\ a_pc' = "finished"
    /\ UNCHANGED <<a_stage, a_calls>>

\* ------------------------------------------------------------ specifications

vars == <<pvars, bvars, vvars, tvars, cvars, lvars, avars>>

\* run_orchestra is not running
IdlePipeline ==
    /\ config = {}
    /\ max_iterations = 0
    /\ create_branch = FALSE
    /\ commit = FALSE
    /\ pc = "idle"
    /\ i = 0
    /\ status = EmptyDict
    /\ invoked = <<>>
    /\ runner_status = EmptyDict
    /\ failed = FALSE
    /\ last_failure_output = <<>>
    /\ implement_prompt = <<>>
    /\ judge_prompt = EmptyDict
    /\ diff_text = ""
    /\ outputs = EmptyDict
    /\ result = NoResult
    /\ raised = Returned
    /\ active = {}
    /\ calls = 0
    /\ hist = <<>>
    /\ tool_calls = <<>>
    /\ ctx_state = EmptyDict
    /\ spawn_events = EmptyDict
    /\ run_outputs = EmptyDict
    /\ failed_runs = 0
    /\ debug_prompt = EmptyDict

\* _run_agent_with_backoff is not running
IdleBackoff ==
    /\ b_pc = "idle"
    /\ max_attempts = 0
    /\ attempt = 0
    /\ delay = INITIAL_DELAY
    /\ sleep_s = 0
    /\ sleep_base = 0
    /\ sleeps = 0
    /\ invocations = 0
    /\ only_rate_limits = TRUE
    /\ last_outcome = Returned
    /\ b_outcome = <<"pending">>

\* the variables of the tools, of the actor with run_task, of the event
\* loop and of the actor with its tools
xvars == <<tvars, cvars, lvars, avars>>

IdleOthers == IdleTools /\ IdleCoder /\ IdleLoop /\ IdleActor

\* run_orchestra, its wrapper and apply_patch are not running
IdleCore == IdlePipeline /\ IdleBackoff /\ IdleValidator

\* One run of run_orchestra.
Init == InitPipeline /\ IdleBackoff /\ IdleValidator /\ IdleOthers

Next ==
    \/ Start /\ UNCHANGED <<bvars, vvars, xvars>>
    \/ MapCall /\ UNCHANGED <<bvars, vvars, xvars>>
    \/ MapReturn /\ UNCHANGED <<bvars, vvars, xvars>>
    \/ PlanCall /\ UNCHANGED <<bvars, vvars, xvars>>
    \/ PlanReturn /\ UNCHANGED <<bvars, vvars, xvars>>
    \/ LoopHead /\ UNCHANGED <<bvars, vvars, xvars>>
    \/ ImplementCall /\ UNCHANGED <<bvars, vvars, xvars>>
    \/ ImplementReturn /\ UNCHANGED <<bvars, vvars, xvars>>
    \/ RunTasksStep /\ UNCHANGED <<bvars, vvars, xvars>>
    \/ Detect /\ UNCHANGED <<bvars, vvars, xvars>>
    \/ DebugCall /\ UNCHANGED <<bvars, vvars, xvars>>
    \/ DebugReturn /\ UNCHANGED <<bvars, vvars, xvars>>
    \/ FixCall /\ UNCHANGED <<bvars, vvars, xvars>>
    \/ FixReturn /\ UNCHANGED <<bvars, vvars, xvars>>
    \/ ReviewCall /\ UNCHANGED <<bvars, vvars, xvars>>
    \/ ReviewReturn /\ UNCHANGED <<bvars, vvars, xvars>>
    \/ JudgeCall /\ UNCHANGED <<bvars, vvars, xvars>>
    \/ JudgeReturn /\ UNCHANGED <<bvars, vvars, xvars>>
    \/ Finalize /\ UNCHANGED <<bvars, vvars, xvars>>

Spec == Init /\ [][Next]_vars

\* One call of _run_agent_with_backoff.
InitWrapper == IdlePipeline /\ InitBackoff /\ IdleValidator /\ IdleOthers

NextWrapper ==
    \/ BackoffAttempt /\ UNCHANGED <<pvars, vvars, xvars>>
    \/ BackoffOutcome /\ UNCHANGED <<pvars, vvars, xvars>>
    \/ BackoffWake /\ UNCHANGED <<pvars, vvars, xvars>>

SpecBackoff == InitWrapper /\ [][NextWrapper]_vars

\* One call of apply_patch, with its call of _patch_is_safe.
InitPatch == IdlePipeline /\ IdleBackoff /\ InitValidator /\ IdleOthers

NextPatch ==
    \/ Validate /\ UNCHANGED <<pvars, bvars, xvars>>
    \/ ApplyReject /\ UNCHANGED <<pvars, bvars, xvars>>
    \/ ApplyWriteTemp /\ UNCHANGED <<pvars, bvars, xvars>>
    \/ ApplyGitApply /\ UNCHANGED <<pvars, bvars, xvars>>

SpecPatch == InitPatch /\ [][NextPatch]_vars

\* One call of list_files, read_file or write_file.
InitToolCall == IdleCore /\ InitTools /\ IdleCoder /\ IdleLoop /\ IdleActor

NextTools ==
    \/ ListFiles /\ UNCHANGED <<pvars, bvars, vvars, cvars, lvars, avars>>
    \/ ReadFile /\ UNCHANGED <<pvars, bvars, vvars, cvars, lvars, avars>>
    \/ WriteFile /\ UNCHANGED <<pvars, bvars, vvars, cvars, lvars, avars>>

SpecTools == InitToolCall /\ [][NextTools]_vars

\* One invocation of an actor that calls run_task.
InitCoderRun == IdleCore /\ IdleTools /\ InitCoder /\ IdleLoop /\ IdleActor

NextCoder ==
    \/ RunTaskTool /\ UNCHANGED <<pvars, bvars, vvars, tvars, lvars, avars>>
    \/ CoderFinish /\ UNCHANGED <<pvars, bvars, vvars, tvars, lvars, avars>>

SpecCoder == InitCoderRun /\ [][NextCoder]_vars

\* Two runs of run_orchestra in one event loop.
InitTwoRuns == IdleCore /\ IdleTools /\ IdleCoder /\ InitLoop /\ IdleActor

NextLoop ==
    \/ \E r \in Runs : LoopResume(r) /\ UNCHANGED <<pvars, bvars, vvars, tvars, cvars, avars>>
    \/ \E r \in Runs : RunStep(r) /\ UNCHANGED <<pvars, bvars, vvars, tvars, cvars, avars>>
    \/ \E r \in Runs : ActorResponds(r) /\ UNCHANGED <<pvars, bvars, vvars, tvars, cvars, avars>>
    \/ \E r \in Runs : ChildExit(r) /\ UNCHANGED <<pvars, bvars, vvars, tvars, cvars, avars>>

SpecLoop == InitTwoRuns /\ [][NextLoop]_vars

\* One invocation of the actor of a stage, with its tool calls.
InitActorRun == IdleCore /\ IdleTools /\ IdleCoder /\ IdleLoop /\ InitActor

NextActors ==
    \/ ActorToolCall /\ UNCHANGED <<pvars, bvars, vvars, tvars, cvars, lvars>>
    \/ ActorFinish /\ UNCHANGED <<pvars, bvars, vvars, tvars, cvars, lvars>>

SpecActors == InitActorRun /\ [][NextActors]_vars

\* ------------------------------------------------------------------ claims

\* the values of a sequence
Range(seq) == {seq[p] : p \in DOMAIN seq}

\* how many times an event stands in hist
CountEv(ev) == Cardinality({p \in DOMAIN hist : hist[p] = ev})

\* some event ev stands in hist before position q
Earlier(ev, q) == \E p \in DOMAIN hist : p < q /\ hist[p] = ev

\* an entry of a status mapping that is a task outcome, not {skipped: true}
IsOutcome(st, t) == t \in DOMAIN st /\ "ok" \in DOMAIN st[t]

\* the loop of run_orchestra is over and no exception left it
PostLoop ==
    pc \in {"review", "review_wait", "judge", "judge_wait", "finalize", "done"}

\* C1: Task Runner fail-fast.  In the mapping a _run_tasks call returned,
\* when a task's command ended with a non-zero exit: that task's outcome has
\* ok = false, every configured task earlier in TASK_ORDER was invoked and
\* has an outcome with ok = true, no task later in TASK_ORDER was invoked,
\* and no later task has an outcome marked ok.  The commands invoked are
\* exactly the tasks that have an outcome.
C1_FailFast ==
    /\ \A t \in TaskNames : t \in Range(invoked) <=> IsOutcome(runner_status, t)
    /\ \A k \in 1..Len(TASK_ORDER) :
         LET t == TASK_ORDER[k] IN
           (IsOutcome(runner_status, t) /\ runner_status[t].returncode # 0) =>
             /\ runner_status[t].ok = FALSE
             /\ \A j \in 1..(k - 1) :
                  TASK_ORDER[j] \in config =>
                    /\ IsOutcome(runner_status, TASK_ORDER[j])
                    /\ runner_status[TASK_ORDER[j]].ok = TRUE
                    /\ runner_status[TASK_ORDER[j]].returncode = 0
                    /\ TASK_ORDER[j] \in Range(invoked)
             /\ \A j \in (k + 1)..Len(TASK_ORDER) :
                  /\ TASK_ORDER[j] \notin Range(invoked)
                  /\ ~IsOutcome(runner_status, TASK_ORDER[j])

\* C1 witness: format ran and passed, lint failed, and test, which is
\* configured, was not run
C1_Witness ==
    /\ {"format", "lint", "test"} \subseteq config
    /\ IsOutcome(runner_status, "format") /\ runner_status["format"].ok
    /\ IsOutcome(runner_status, "lint") /\ ~runner_status["lint"].ok
    /\ invoked = <<"format", "lint">>
    /\ "test" \notin DOMAIN runner_status

\* the failures section 4.4 of the specification calls retryable: a rate
\* limit, or a status code >= 500
SpecRetryable(e) ==
    \/ e.cls = "RateLimitError"
    \/ e.status_code # None /\ e.status_code >= 500

\* max_attempts: int = 8
DEFAULT_MAX_ATTEMPTS == 8

\* C2: every actor invocation of the pipeline controller goes through the
\* resilient call wrapper: a rate-limit failure or a failure with status
\* code >= 500 ends the run only after max_attempts retryable failures of
\* that invocation.
C2_EveryCallRetried ==
    (pc = "raised" /\ SpecRetryable(raised)) => calls >= DEFAULT_MAX_ATTEMPTS

\* the part of C6 that is about single states
C6_ExhaustedState ==
    /\ pc = "raised" => raised \in Failures
    /\ (PostLoop /\ failed) =>
         /\ i = max_iterations
         /\ CountEv(<<"tasks", "run">>) = max_iterations
         /\ raised = Returned
    /\ (failed /\ pc \in {"judge_wait", "finalize", "done"}) =>
         /\ judge_prompt.status = runner_status
         /\ Earlier(<<"review", "done">>, Len(hist))
    /\ (failed /\ pc = "done") =>
         /\ hist[Len(hist) - (IF commit THEN 1 ELSE 0)] = <<"judge", "done">>
         /\ result = [repo_map |-> <<"map", "final_output">>,
                      plan |-> <<"plan", "final_output">>,
                      final_status |-> runner_status,
                      review |-> <<"review", "final_output">>,
                      judge |-> <<"judge", "final_output">>,
                      diff |-> diff_text]
         /\ result.diff = judge_prompt.diff

\* C6: exhausted transition.  The run raises only when an actor call failed.
\* The loop is left with a failing verification only when i = max_iterations,
\* and then the next stage is Review; the Judge's prompt carries the mapping
\* of the last _run_tasks call, and the result returned holds the map, the
\* plan, that mapping, the review, the judge decision and the diff.
C6_Exhausted ==
    /\ []C6_ExhaustedState
    /\ [][(pc = "loop" /\ failed /\ i = max_iterations) => pc' = "review"]_vars

\* C6 witness: max_iterations = 2, both iterations ended with a failing
\* test task, and the run returned its result
C6_Witness ==
    /\ pc = "done"
    /\ max_iterations = 2
    /\ i = 2
    /\ failed
    /\ IsOutcome(result.final_status, "test")
    /\ ~result.final_status["test"].ok
    /\ CountEv(<<"fix", "done">>) = 2

\* no task of a status mapping has an outcome with ok = false
NoFailing(st) == \A t \in DOMAIN st : IsOutcome(st, t) => st[t].ok

\* the events of hist after the latest _run_tasks call
AfterLastRun ==
    {hist[p] : p \in {q \in DOMAIN hist :
                        \A r \in DOMAIN hist :
                            hist[r] = <<"tasks", "run">> => r < q}}

\* the part of C7 that is about single states
C7_DoneState ==
    /\ pc \in {"debug", "debug_wait", "fix", "fix_wait"} =>
         ~NoFailing(runner_status)
    /\ (PostLoop /\ i >= 1 /\ NoFailing(runner_status)) =>
         /\ ~failed
         /\ AfterLastRun \cap {<<"implement", "call">>, <<"debug", "call">>,
                               <<"fix", "call">>} = {}
         /\ CountEv(<<"tasks", "run">>) = i
         /\ CountEv(<<"debug", "call">>) = i - 1
         /\ CountEv(<<"fix", "call">>) = i - 1
    /\ (PostLoop /\ config = {} /\ max_iterations >= 1) =>
         /\ i = 1
         /\ CountEv(<<"implement", "call">>) = 1
         /\ CountEv(<<"debug", "call">>) = 0
         /\ \A t \in TaskNames : runner_status[t] = [skipped |-> TRUE]

\* C7: done transition.  When the mapping of the iteration's _run_tasks call
\* has no failing task, the step after the scan enters Review; the
\* diagnosing actor and the fix-implement actor are invoked only after a run
\* with a failing task; once the loop is over after such a run, nothing of
\* the loop (implement, diagnose, fix) happened after that run.  With no
\* task configured the loop is over after iteration 1.
C7_Done ==
    /\ []C7_DoneState
    /\ [][(pc = "detect" /\ NoFailing(status)) => pc' = "review"]_vars

\* C7 witness: nothing configured, max_iterations = 2, the run is over after
\* one iteration
C7_Witness ==
    /\ pc = "done"
    /\ config = {}
    /\ max_iterations = 2
    /\ i = 1
    /\ CountEv(<<"implement", "call">>) = 1

\* C8: a run that reaches Review has executed the implement iteration at
\* least once and at most max_iterations times.
C8_IterationsAtLeastOnce ==
    PostLoop =>
      /\ CountEv(<<"implement", "call">>) >= 1
      /\ CountEv(<<"tasks", "run">>) >= 1
      /\ CountEv(<<"implement", "call">>) <= max_iterations
      /\ CountEv(<<"tasks", "run">>) <= max_iterations

\* the events of the implement loop
LoopEvents ==
    {<<"implement", "call">>, <<"implement", "done">>, <<"tasks", "run">>,
     <<"debug", "call">>, <<"debug", "done">>, <<"fix", "call">>,
     <<"fix", "done">>}

\* C9: stage ordering.  At most one stage is in progress at a time.  The
\* mapping actor and the planning actor are invoked at most once, and exactly
\* once by the time the stage after them has begun.  Plan is invoked only
\* after Map completed, the events of the loop happen only after Plan
\* completed and never after Review was invoked, Review is invoked at most
\* once, Judge only after Review completed, the commit only after Judge
\* completed, and the branch is created before everything else.
C9_StageOrdering ==
    /\ Cardinality(active) <= 1
    /\ \A st \in {"map", "plan", "review", "judge"} :
         /\ CountEv(<<st, "call">>) <= 1
         /\ CountEv(<<st, "done">>) <= CountEv(<<st, "call">>)
    /\ pc \notin {"start", "map", "raised"} => CountEv(<<"map", "call">>) = 1
    /\ pc \notin {"start", "map", "map_wait", "plan", "raised"} =>
         /\ CountEv(<<"plan", "call">>) = 1
         /\ CountEv(<<"map", "done">>) = 1
    /\ \A q \in DOMAIN hist :
         /\ hist[q] = <<"branch", "git">> => q = 1
         /\ hist[q] = <<"plan", "call">> => Earlier(<<"map", "done">>, q)
         /\ hist[q] \in LoopEvents =>
              /\ Earlier(<<"plan", "done">>, q)
              /\ ~Earlier(<<"review", "call">>, q)
         /\ hist[q] = <<"review", "call">> => Earlier(<<"plan", "done">>, q)
         /\ hist[q] = <<"judge", "call">> => Earlier(<<"review", "done">>, q)
         /\ hist[q] = <<"commit", "git">> =>
              /\ Earlier(<<"judge", "done">>, q)
              /\ q = Len(hist)
         /\ (hist[q][2] = "call" /\ q > 1 /\ hist[q - 1][2] = "call") => FALSE
    /\ pc = "done" => CountEv(<<"judge", "done">>) = 1

\* C9 witness: a run with a branch, two iterations and a commit is over
C9_Witness ==
    /\ pc = "done"
    /\ create_branch /\ commit
    /\ i = 2
    /\ CountEv(<<"fix", "done">>) = 1

\* the base delay of the n-th sleep, in half seconds: min(20, 0.5 * 2^(n-1))
BaseDelay(n) == Min(40, Pow2(n - 1))

\* the latest sleep lasted a time in [base, 1.25 * base), or, when not
\* strict, in [base, 1.25 * base]
SleepInRange(strict) ==
    /\ sleep_s >= sleep_base * One
    /\ IF strict THEN 4 * sleep_s < 5 * sleep_base * One
                 ELSE 4 * sleep_s <= 5 * sleep_base * One

\* What C3 says.  Of every sleep that answers a rate-limit failure after
\* rate-limit failures only: it is the n-th sleep after the n-th invocation,
\* its base delay is min(20, 0.5 * 2^(n-1)), not below the base delay before
\* it.  Of a return after k rate-limit failures: the success value, after
\* k + 1 invocations and k sleeps, k < max_attempts, and the k-th sleep
\* lasted a time in the range.
C3_Shape(strict) ==
    /\ (b_pc = "sleeping" /\ only_rate_limits) =>
         /\ sleeps = invocations
         /\ sleep_base = BaseDelay(sleeps)
         /\ sleep_base <= 40
         /\ sleeps > 1 => sleep_base >= BaseDelay(sleeps - 1)
         /\ SleepInRange(FALSE)
    /\ (b_pc = "returned" /\ only_rate_limits) =>
         /\ b_outcome = <<"final_output">>
         /\ invocations = sleeps + 1
         /\ sleeps < max_attempts
         /\ sleeps >= 1 =>
              /\ sleep_base = BaseDelay(sleeps)
              /\ SleepInRange(strict)

\* C3 as the claim states it: k rate-limit failures (k < max_attempts), then
\* a success: the success value is returned after k + 1 invocations and k
\* sleeps, the n-th sleep has base delay min(20, 0.5 * 2^(n-1)) and lasts a
\* time in [base, 1.25 * base).
C3_Original == C3_Shape(TRUE)

\* C3 as amended: the same, the n-th sleep lasting a time in
\* [base, 1.25 * base], both ends included.
C3_SuccessAfterRetries == C3_Shape(FALSE)

\* C3 witness: seven rate-limit failures, the seventh sleep at the cap of
\* 20 s, then the success
C3_Witness ==
    /\ b_pc = "returned"
    /\ only_rate_limits
    /\ sleeps = 7
    /\ invocations = 8
    /\ sleep_base = DELAY_CAP

\* the wrapper is past the failure of its latest attempt
AfterFailure == last_outcome \in Failures /\ b_pc # "calling"

\* the failure ended the call on the attempt where it occurred: it is what
\* the wrapper raised, every earlier attempt was followed by one sleep, and
\* there was no sleep after it
Propagated ==
    /\ b_pc = "raised"
    /\ b_outcome = <<"propagated", last_outcome>>
    /\ invocations = attempt
    /\ sleeps = invocations - 1

C5_ExhaustionState ==
    /\ invocations <= max_attempts
    /\ attempt <= max_attempts
    /\ (b_outcome # <<"pending">> /\ b_outcome[1] = "RuntimeError") =>
         /\ b_pc = "raised"
         /\ b_outcome = <<"RuntimeError", Label, max_attempts>>
         /\ invocations = max_attempts
         /\ sleeps = max_attempts
    /\ b_pc = "returned" => b_outcome = <<"final_output">>

\* C5: exhaustion.  The wrapper invokes the operation at most max_attempts
\* times.  The terminal error names the label and max_attempts and is raised
\* only after max_attempts invocations that each failed and were each
\* answered with a sleep; once max_attempts invocations have failed that way
\* the next step raises it, with no further invocation; and after the
\* wrapper returned or raised, nothing more happens.
C5_Exhaustion ==
    /\ []C5_ExhaustionState
    /\ [][(b_pc = "loop" /\ sleeps = max_attempts /\ max_attempts >= 1) =>
            /\ b_pc' = "raised"
            /\ b_outcome' = <<"RuntimeError", Label, max_attempts>>
            /\ invocations' = invocations]_vars
    /\ [][b_pc \notin {"returned", "raised"}]_vars

\* C5 witness: eight retryable failures of mixed kinds, then the terminal
\* error
C5_Witness ==
    /\ b_pc = "raised"
    /\ max_attempts = 8
    /\ b_outcome = <<"RuntimeError", Label, 8>>
    /\ invocations = 8
    /\ ~only_rate_limits

\* the lines of the text given to the validator
PatchLines == SplitLines(patch_text)

\* the rest of a line after a prefix
After(line, prefix) == SubSeq(line, Len(prefix) + 1, Len(line))

\* a header line that names an absolute path: after "+++ " or "--- " the
\* path starts with "/"; after "diff --git " the old or the new path does
NamesAbsolutePath(line) ==
    \/ StartsWith(line, PlusPrefix \o <<"/">>)
    \/ StartsWith(line, MinusPrefix \o <<"/">>)
    \/ /\ StartsWith(line, DiffPrefix)
       /\ \/ StartsWith(After(line, DiffPrefix), <<"/">>)
          \/ Contains(After(line, DiffPrefix), <<" ", "/">>)

\* a header line that holds a parent-directory traversal token
HoldsTraversal(line) ==
    IsHeaderLine(line) /\ (Contains(line, DotDotSlash) \/ Contains(line, DotDotBackslash))

UnsafeLine(line) == NamesAbsolutePath(line) \/ HoldsTraversal(line)

\* C10: a text in which some header line names an absolute path or holds
\* "../" or "..\" is rejected, wherever that line stands.
C10_UnsafeRejected ==
    (v_pc = "validated" /\ \E n \in DOMAIN PatchLines : UnsafeLine(PatchLines[n]))
      => ~verdict.accepted

\* C11: a text in which no header line names an absolute path or holds
\* "../" or "..\" is accepted, whatever its other lines hold.
C11_SafeAccepted ==
    (v_pc = "validated" /\ \A n \in DOMAIN PatchLines : ~UnsafeLine(PatchLines[n]))
      => verdict.accepted

\* C12: patch hard gate.  When _patch_is_safe rejected the text, apply_patch
\* writes no file and runs no git apply, does not raise, and what it returns
\* is the error text with the validator's reason.  `git apply` is run, and
\* the temporary file written, only with the text that was given to the
\* validator and that it accepted.
C12_HardGate ==
    /\ (v_pc \notin {"idle", "input"} /\ ~verdict.accepted) =>
         /\ apply_log = <<>>
         /\ v_pc \in {"validated", "returned"}
         /\ v_pc = "returned" =>
              /\ tool_output = <<"ERROR: ", PatchIsSafe(patch_text).reason>>
              /\ tool_output[2] # <<"OK">>
    /\ \A n \in DOMAIN apply_log :
         /\ apply_log[n][2] = patch_text
         /\ verdict = PatchIsSafe(patch_text)
         /\ verdict.accepted
         /\ apply_log[n][1] = "git_apply" =>
              n > 1 /\ apply_log[n - 1] = <<"write_temp", patch_text>>
    /\ v_pc = "temp_written" => verdict.accepted

\* C12 witness: a text with "../" on a "+++ " line was rejected and
\* apply_patch returned the error text
C12_Witness ==
    /\ v_pc = "returned"
    /\ patch_text = PlusPrefix \o DotDotSlash \o <<"a">>
    /\ tool_output = <<"ERROR: ", <<"parent traversal in diff header">>>>
    /\ apply_log = <<>>

\* the location a path given to a tool names: repoRoot / p, resolved
LocationOf(p) == Resolve(JoinPath(REPO_DIR, p))

\* a location that is the repository root or a descendant of it
InsideRepo(loc) == Len(loc) >= 1 /\ loc[1] = "repo"

\* C13: path containment.  After a call of list_files, read_file or
\* write_file with the path p: when the location p names is not the
\* repository root nor a descendant of it, abs_path raised, the tool did
\* nothing to the file system (no test, no read, no directory made, no
\* write) and the ValueError left it; when the location is the root or
\* inside it, abs_path returned that location, and what the tool read, walked
\* or wrote is that location and what it made is its parent directory.
C13_PathContainment ==
    t_pc \in {"returned", "raised"} =>
      LET loc == LocationOf(tool_path) IN
        IF ~InsideRepo(loc)
        THEN /\ t_pc = "raised"
             /\ abs_result = <<"ValueError">>
             /\ fs_ops = <<>>
             /\ t_result = "ValueError: Path escapes repo"
        ELSE /\ abs_result = <<"location", loc>>
             /\ \A n \in DOMAIN fs_ops :
                  IF fs_ops[n][1] = "mkdir" THEN fs_ops[n][2] = Parent(loc)
                  ELSE fs_ops[n][2] = loc
             /\ t_result # "ValueError: Path escapes repo"

\* C13 witness: write_file was called with out/f, where out is a symbolic
\* link to /etc; abs_path raised and nothing was written
C13_Witness ==
    /\ t_pc = "raised"
    /\ tool_name = "write_file"
    /\ tool_path = [abs |-> FALSE, parts |-> <<"out", "f">>]
    /\ LocationOf(tool_path) = <<"etc", "f">>
    /\ fs_ops = <<>>

\* ---- the executor inside the task runner, and the failure scan

\* a _run_tasks call was made and no exception left run_orchestra since
AfterRun == CountEv(<<"tasks", "run">>) >= 1 /\ pc # "raised"

\* the scan for the latest mapping is done (line 287 is passed)
Scanned == pc \notin {"detect", "raised"}

\* the position in TASK_ORDER of the first task of a mapping whose outcome
\* has ok = false; 0 when there is none
FirstFailing(st) ==
    IF \E k \in 1..Len(TASK_ORDER) :
          IsOutcome(st, TASK_ORDER[k]) /\ ~st[TASK_ORDER[k]].ok
    THEN CHOOSE k \in 1..Len(TASK_ORDER) :
           /\ IsOutcome(st, TASK_ORDER[k]) /\ ~st[TASK_ORDER[k]].ok
           /\ \A j \in 1..(k - 1) :
                ~(IsOutcome(st, TASK_ORDER[j]) /\ ~st[TASK_ORDER[j]].ok)
    ELSE 0

\* the failure text the controller is to capture for a mapping: the first
\* failing task, its command text and its output tail
FailureTextOf(st) ==
    LET t == TASK_ORDER[FirstFailing(st)] IN <<t, st[t].cmd, st[t].output_tail>>

\* C14: the executor never raises inside the task runner.  For every task
\* whose subprocess.run call raised (launch failure, I/O error, timeout):
\* the mapping holds for it an outcome with ok = false, returncode = 1 and
\* the error text; it is the last command the task runner spawned and no
\* later task has an entry; once the scan is done the controller holds it as
\* the failure, and the diagnosing actor gets its text, as for a command
\* that ran and failed.  An exception leaves the run only out of an awaited
\* actor call.
C14_ExecutorNeverRaises ==
    /\ \A k \in 1..Len(TASK_ORDER) :
         LET t == TASK_ORDER[k] IN
           (t \in DOMAIN spawn_events /\ spawn_events[t] = "raised") =>
             /\ IsOutcome(runner_status, t)
             /\ runner_status[t].ok = FALSE
             /\ runner_status[t].returncode = 1
             /\ runner_status[t].output_tail = "ERROR running command"
             /\ invoked[Len(invoked)] = t
             /\ \A j \in (k + 1)..Len(TASK_ORDER) :
                  TASK_ORDER[j] \notin DOMAIN runner_status
             /\ Scanned =>
                  /\ failed
                  /\ last_failure_output =
                        <<t, CmdText(t), "ERROR running command">>
                  /\ pc \in {"debug", "debug_wait", "fix", "fix_wait", "loop",
                              "implement", "implement_wait", "run_tasks"}
                       \/ (PostLoop /\ i = max_iterations)
             /\ pc = "debug_wait" =>
                  debug_prompt.failure_output =
                     <<t, CmdText(t), "ERROR running command">>
    /\ pc = "raised" =>
         /\ raised \in RunFailures
         /\ hist # <<>> /\ hist[Len(hist)][2] = "call"

\* C14 witness: the lint command could not be run, and the diagnosing actor
\* is at work on it
C14_Witness ==
    /\ pc = "debug_wait"
    /\ "lint" \in DOMAIN spawn_events
    /\ spawn_events["lint"] = "raised"
    /\ debug_prompt.failure_output = <<"lint", CmdText("lint"), "ERROR running command">>

\* C15: failure detection.  Once the scan is done: failed holds exactly when
\* the mapping of the latest _run_tasks call holds an outcome with
\* ok = false; then last_failure_output is made of the first such task in
\* TASK_ORDER, its command text and its output tail, and otherwise it is
\* empty; a skipped entry and an absent entry are never what is selected; the
\* diagnosing actor's prompt carries that text.  With only lint configured
\* and exiting with 1: lint has ok = false and returncode = 1, and typecheck,
\* test and build are absent.
C15_FailureDetection ==
    /\ Scanned =>
         /\ failed <=> FirstFailing(runner_status) # 0
         /\ failed => /\ last_failure_output = FailureTextOf(runner_status)
                       /\ IsOutcome(runner_status, last_failure_output[1])
         /\ ~failed => last_failure_output = <<>>
    /\ pc = "debug_wait" =>
         /\ failed
         /\ debug_prompt = [failure_output |-> FailureTextOf(runner_status)]
    /\ (config = {"lint"} /\ "lint" \in DOMAIN spawn_events
          /\ runner_status["lint"].returncode = 1) =>
         /\ runner_status["lint"].ok = FALSE
         /\ runner_status["format"] = [skipped |-> TRUE]
         /\ DOMAIN runner_status = {"format", "lint"}
         /\ Scanned => last_failure_output =
                          <<"lint", CmdText("lint"),
                            runner_status["lint"].output_tail>>

\* C15 witness: only lint is configured, it exited with 1 and printed
\* "SyntaxError line 4", and the diagnosing actor has that text
C15_Witness ==
    /\ config = {"lint"}
    /\ pc = "debug_wait"
    /\ spawn_events = [t \in {"lint"} |-> "exit"]
    /\ debug_prompt.failure_output =
          <<"lint", CmdText("lint"), "SyntaxError line 4">>

\* C16: skipped tasks.  In the mapping of the latest _run_tasks call, a task
\* of TASK_ORDER that is not configured and stands before every failing task
\* has the entry {skipped: true}, no command was spawned for it, and the
\* task after it has an entry too; no entry {skipped: true} is an outcome,
\* and the scan never selects one: with nothing but skipped entries and
\* passing outcomes, failed is false.
C16_SkippedTasks ==
    /\ AfterRun =>
         \A k \in 1..Len(TASK_ORDER) :
           LET t == TASK_ORDER[k] IN
             (t \notin config
                /\ (FirstFailing(runner_status) = 0
                      \/ k < FirstFailing(runner_status))) =>
               /\ t \in DOMAIN runner_status
               /\ runner_status[t] = [skipped |-> TRUE]
               /\ t \notin Range(invoked)
               /\ k < Len(TASK_ORDER) => TASK_ORDER[k + 1] \in DOMAIN runner_status
    /\ \A t \in DOMAIN runner_status :
         /\ "skipped" \in DOMAIN runner_status[t] =>
              (t \notin config /\ ~IsOutcome(runner_status, t))
         /\ (Scanned /\ failed) =>
              "skipped" \notin DOMAIN runner_status[last_failure_output[1]]
    /\ (Scanned /\ AfterRun
          /\ \A t \in DOMAIN runner_status :
               IsOutcome(runner_status, t) => runner_status[t].ok) => ~failed

\* C16 witness: format and typecheck are not configured, lint passed and
\* test failed; both have the entry {skipped: true} and the scan chose test
C16_Witness ==
    /\ config = {"lint", "test"}
    /\ pc = "debug"
    /\ runner_status["format"] = [skipped |-> TRUE]
    /\ runner_status["typecheck"] = [skipped |-> TRUE]
    /\ invoked = <<"lint", "test">>
    /\ last_failure_output[1] = "test"

\* C17 as the claim states it: the mapping a _run_tasks call returned has an
\* entry for each of the five names of TASK_ORDER.
C17_Original == AfterRun => DOMAIN runner_status = TaskNames

\* C17 as amended: the mapping a _run_tasks call returned has an entry for
\* each name of TASK_ORDER up to and including the first task that failed
\* (the skipped ones among them included) and no entry for a task after it;
\* when no task failed it has an entry for each of the five names.
C17_MappingUpToFailure ==
    AfterRun =>
      DOMAIN runner_status =
        IF FirstFailing(runner_status) = 0 THEN TaskNames
        ELSE {TASK_ORDER[j] : j \in 1..FirstFailing(runner_status)}

\* C17 witness: format is not configured and lint failed; the mapping the
\* run returned holds format and lint and nothing else
C17_Witness ==
    /\ pc = "done"
    /\ config = {"lint", "build"}
    /\ DOMAIN result.final_status = {"format", "lint"}
    /\ result.final_status["format"] = [skipped |-> TRUE]
    /\ ~result.final_status["lint"].ok

\* C18: install is handled at most once per run: the install command is
\* spawned at most one time, whatever tool calls the actors make, and it is
\* not among the tasks of the task runner's sequence.
C18_InstallAtMostOnce ==
    /\ install_runs <= 1
    /\ "install" \notin Range(TASK_ORDER)

\* C19: while a run waits for a process it spawned, another run that is
\* ready to go on can be resumed.
C19_NonBlocking ==
    \A a \in Runs : \A b \in Runs \ {a} :
      (l_st[a] = "blocked" /\ l_st[b] = "ready") =>
        ENABLED (LoopResume(b) /\ UNCHANGED <<pvars, bvars, vvars, tvars, cvars, avars>>)

\* C20: iteration protocol.  In hist: a _run_tasks call follows at once the
\* return of an implementing call and is followed by the diagnosing call or
\* by Review; a diagnosing call follows at once a _run_tasks call; its
\* return is followed by the fix call, and the return of the fix call by the
\* next implementing call or by Review.  Each iteration begun has one
\* implementing call and at most one _run_tasks call.  The diagnosing actor
\* is awaited only when the latest mapping holds a failing task; there are
\* never more diagnosing calls than _run_tasks calls with a failing task, nor
\* more fix calls than diagnosing calls, and when the run is over the three
\* numbers are equal.
C20_IterationProtocol ==
    /\ \A q \in DOMAIN hist :
         /\ hist[q] = <<"tasks", "run">> =>
              /\ q > 1 /\ hist[q - 1] = <<"implement", "done">>
              /\ q < Len(hist) =>
                   hist[q + 1] \in {<<"debug", "call">>, <<"review", "call">>}
         /\ hist[q] = <<"implement", "call">> =>
              /\ hist[q - 1] \in {<<"plan", "done">>, <<"fix", "done">>}
         /\ (hist[q] = <<"implement", "done">> /\ q < Len(hist)) =>
              hist[q + 1] = <<"tasks", "run">>
         /\ hist[q] = <<"debug", "call">> => hist[q - 1] = <<"tasks", "run">>
         /\ (hist[q] = <<"debug", "done">> /\ q < Len(hist)) =>
              hist[q + 1] = <<"fix", "call">>
         /\ hist[q] = <<"fix", "call">> => hist[q - 1] = <<"debug", "done">>
         /\ (hist[q] = <<"fix", "done">> /\ q < Len(hist)) =>
              hist[q + 1] \in {<<"implement", "call">>, <<"review", "call">>}
    /\ pc \notin {"raised", "implement"} => CountEv(<<"implement", "call">>) = i
    /\ pc \notin {"raised", "implement", "implement_wait", "run_tasks"} =>
         CountEv(<<"tasks", "run">>) = i
    /\ pc = "debug_wait" => FirstFailing(runner_status) # 0
    /\ CountEv(<<"debug", "call">>) <= failed_runs
    /\ CountEv(<<"fix", "call">>) <= CountEv(<<"debug", "call">>)
    /\ failed_runs <= CountEv(<<"tasks", "run">>)
    /\ pc \notin {"detect", "debug"} => CountEv(<<"debug", "call">>) = failed_runs
    /\ pc = "done" =>
         /\ CountEv(<<"debug", "call">>) = failed_runs
         /\ CountEv(<<"fix", "call">>) = failed_runs
         /\ CountEv(<<"debug", "done">>) = failed_runs
         /\ CountEv(<<"fix", "done">>) = failed_runs

\* C20 witness: the first iteration's verification failed and the second
\* one's passed; one diagnosing call and one fix call were made
C20_Witness ==
    /\ pc = "done"
    /\ CountEv(<<"tasks", "run">>) = 2
    /\ failed_runs = 1
    /\ ~failed
    /\ CountEv(<<"debug", "call">>) = 1
    /\ CountEv(<<"fix", "call">>) = 1

\* ---- the prompts, the cap on outputs, and the end of the run

C24_OutputCapping ==
    /\ \A t \in DOMAIN run_outputs :
         LET out  == run_outputs[t]
             tail == runner_status[t].output_tail
         IN /\ IsOutcome(runner_status, t)
            /\ Len(tail) <= 4000
            /\ Len(out) <= 4000 => tail = out
            /\ Len(out) > 4000 =>
                 /\ Len(tail) = 4000
                 /\ \A n \in {1, 2, 3999, 4000} :
                      SubSeq(tail, n, n) =
                        SubSeq(out, Len(out) - 4000 + n, Len(out) - 4000 + n)
                 /\ out = SubSeq(out, 1, Len(out) - 4000) \o tail
    /\ (Scanned /\ failed) => Len(last_failure_output[3]) <= 4000
    /\ pc = "debug_wait" => Len(debug_prompt.failure_output[3]) <= 4000

\* C24 witness: the lint command printed 4001 characters and exited with 2;
\* the diagnosing actor is given the last 4000 of them
C24_Witness ==
    /\ pc = "debug_wait"
    /\ "lint" \in DOMAIN run_outputs
    /\ Len(run_outputs["lint"]) = 4001
    /\ runner_status["lint"].returncode = 2
    /\ debug_prompt.failure_output[3] = SubSeq(run_outputs["lint"], 2, 4001)
    /\ SubSeq(run_outputs["lint"], 1, 1) = "u"

\* the positions in hist of the implementing calls (implement and fix) made
\* after the latest _run_tasks call, or made at all when there was no such
\* call
ImplementingAfterLastRun ==
    {p \in DOMAIN hist :
       /\ hist[p] \in {<<"implement", "call">>, <<"fix", "call">>}
       /\ \A q \in DOMAIN hist : hist[q] = <<"tasks", "run">> => q < p}

\* the Judge was invoked
JudgeInvoked == pc \in {"judge_wait", "finalize", "done"}

\* C27 as the claim states it: no implementing call is made between the
\* latest _run_tasks call and Review.
C27_Original ==
    JudgeInvoked =>
      (CountEv(<<"tasks", "run">>) >= 1 => ImplementingAfterLastRun = {})

\* C27 as amended: the status mapping given to the Judge and returned as the
\* final status is the mapping of the latest _run_tasks call of the run, and
\* it is empty when there was no such call (then no implementing call was
\* made either).  When that mapping holds no failing outcome, no implementing
\* call was made after the call that produced it; when it holds one (the
\* iterations are used up), exactly one was: the fix call of the last
\* iteration.
C27_LastKnownStatus ==
    JudgeInvoked =>
      /\ judge_prompt.status = runner_status
      /\ pc = "done" => result.final_status = runner_status
      /\ CountEv(<<"tasks", "run">>) = 0 =>
           /\ runner_status = EmptyDict
           /\ ImplementingAfterLastRun = {}
      /\ CountEv(<<"tasks", "run">>) >= 1 =>
           IF FirstFailing(runner_status) = 0
           THEN ImplementingAfterLastRun = {}
           ELSE /\ Cardinality(ImplementingAfterLastRun) = 1
                /\ \A p \in ImplementingAfterLastRun :
                     hist[p] = <<"fix", "call">>
                /\ i = max_iterations

\* C27 witness: the run is over, the mapping it returned holds a failing
\* lint, and the fix call came after the run that produced it
C27_Witness ==
    /\ pc = "done"
    /\ FirstFailing(result.final_status) = 2
    /\ Cardinality(ImplementingAfterLastRun) = 1

\* C28: shape of a task runner mapping.  In the mapping of the latest
\* _run_tasks call at most one entry has ok = false; if there is one, every
\* task before it in TASK_ORDER has an entry that is skipped or has
\* ok = true, no task after it has an entry, and it is the last command that
\* was spawned; the task the controller reports as failed is that task.
C28_MappingShape ==
    /\ Cardinality({t \in DOMAIN runner_status :
                      IsOutcome(runner_status, t) /\ ~runner_status[t].ok}) <= 1
    /\ \A k \in 1..Len(TASK_ORDER) :
         LET t == TASK_ORDER[k] IN
           (IsOutcome(runner_status, t) /\ ~runner_status[t].ok) =>
             /\ \A j \in 1..(k - 1) :
                  /\ TASK_ORDER[j] \in DOMAIN runner_status
                  /\ \/ runner_status[TASK_ORDER[j]] = [skipped |-> TRUE]
                     \/ /\ IsOutcome(runner_status, TASK_ORDER[j])
                        /\ runner_status[TASK_ORDER[j]].ok
             /\ \A j \in (k + 1)..Len(TASK_ORDER) :
                  TASK_ORDER[j] \notin DOMAIN runner_status
             /\ invoked # <<>> /\ invoked[Len(invoked)] = t
             /\ Scanned => /\ failed
                           /\ last_failure_output[1] = t
    /\ (Scanned /\ failed) =>
         /\ invoked # <<>>
         /\ last_failure_output[1] = invoked[Len(invoked)]

\* C28 witness: format passed, lint is not configured, typecheck failed; the
\* runner stopped there and the controller reports typecheck
C28_Witness ==
    /\ pc = "debug"
    /\ invoked = <<"format", "typecheck">>
    /\ DOMAIN runner_status = {"format", "lint", "typecheck"}
    /\ runner_status["format"].ok
    /\ ~runner_status["typecheck"].ok
    /\ last_failure_output[1] = "typecheck"

\* C25: finalize placement.  The branch creation is attempted exactly when
\* create_branch is set, then once, and before anything else the run does
\* (the mapping call included).  The commit is attempted exactly when commit
\* is set and the Judge returned, then once, after the Judge's return and as
\* the last thing the run does.  A run that an actor's failure ended made no
\* commit.
C25_FinalizePlacement ==
    /\ pc = "start" => CountEv(<<"branch", "git">>) = 0
    /\ pc # "start" =>
         CountEv(<<"branch", "git">>) = IF create_branch THEN 1 ELSE 0
    /\ \A q \in DOMAIN hist : hist[q] = <<"branch", "git">> => q = 1
    /\ Cardinality({p \in DOMAIN tool_calls :
                      tool_calls[p][1] = "git_create_branch"})
         = CountEv(<<"branch", "git">>)
    /\ CountEv(<<"commit", "git">>) =
         IF commit /\ pc = "done" THEN 1 ELSE 0
    /\ Cardinality({p \in DOMAIN tool_calls :
                      tool_calls[p][1] = "git_commit_all"})
         = CountEv(<<"commit", "git">>)
    /\ \A q \in DOMAIN hist :
         hist[q] = <<"commit", "git">> =>
           /\ q = Len(hist)
           /\ hist[q - 1] = <<"judge", "done">>
    /\ pc = "done" => CountEv(<<"judge", "done">>) = 1
    /\ pc = "raised" => CountEv(<<"commit", "git">>) = 0

\* C25 witness: a run with both options is over; the branch came first and
\* the commit last
C25_Witness ==
    /\ pc = "done"
    /\ create_branch /\ commit
    /\ hist[1] = <<"branch", "git">>
    /\ hist[2] = <<"map", "call">>
    /\ hist[Len(hist)] = <<"commit", "git">>

\* C26: bounded external-call cost.  When the run is over, however it ended,
\* it has made at most 4 + 3 * max_iterations actor invocations and at most
\* max_iterations _run_tasks calls.
C26_BoundedCost ==
    pc \in {"done", "raised"} =>
      /\ Cardinality({p \in DOMAIN hist : hist[p][2] = "call"})
           <= 4 + 3 * max_iterations
      /\ CountEv(<<"tasks", "run">>) <= max_iterations

\* C29: branch bookkeeping.  ctx.state["branch"] holds a name only if a
\* create-and-switch-to-branch operation for that name succeeded.
C29_BranchBookkeeping ==
    "branch" \in DOMAIN ctx_state =>
      \E p \in DOMAIN tool_calls :
        tool_calls[p] = <<"git_create_branch", ctx_state["branch"], TRUE>>

\* ---- the tools of the actors

\* the tools that write files, apply patches or run tasks
WritingTools == {"write_file", "apply_patch", "run_task"}

\* C22: write capability is confined to the implementing actor.  A tool call
\* that writes a file, applies a patch or runs a task is made only in an
\* invocation of the implement or the fix stage; the agents of the map,
\* plan, debug, review and judge stages have no such tool, and no tool that
\* changes the git state; the agent of the judge stage has no tool, and its
\* invocation makes no tool call.
C22_WriteConfinement ==
    /\ \A p \in DOMAIN a_calls :
         a_calls[p][2] # "read" => a_stage \in {"implement", "fix"}
    /\ \A p \in DOMAIN a_calls :
         a_calls[p][1] \in WritingTools => a_calls[p][2] # "read"
    /\ a_stage = "judge" => a_calls = <<>>
    /\ \A stage \in Stages \ {"implement", "fix"} :
         /\ AgentTools(StageAgent(stage)) \cap WritingTools = {}
         /\ \A tool \in AgentTools(StageAgent(stage)) :
              ToolEffect(tool) = "read"
    /\ AgentTools(StageAgent("judge")) = {}

\* C22 witness: in a fix invocation the actor wrote a file and applied a
\* patch
C22_Witness ==
    /\ a_stage = "fix"
    /\ a_pc = "finished"
    /\ a_calls = << <<"write_file", "write">>, <<"apply_patch", "patch">> >>

\* C23: actor-requested task runs never raise.  When the latest run_task
\* call was for a configured task, it returned a text with OK or FAIL and
\* the command, and ctx.state holds the return code and the output tail
\* under the task's key; no exception left it.
C23_RunTaskNeverRaises ==
    /\ c_pc # "raised"
    /\ (c_turns >= 1 /\ c_output[2] \in c_config) =>
         /\ c_output[1] \in {"OK", "FAIL"}
         /\ c_output[2] \in DOMAIN task_state
         /\ (c_output[1] = "OK") <=> (task_state[c_output[2]].returncode = 0)

====
